---- MODULE Spec2Model ----
(***************************************************************************)
(* Model of the remote API access layer of spotify-release-hub             *)
(* (SpotifyService): the token lifecycle (401 -> single-flight refresh ->  *)
(* replay), the rate gate (throttleRequests) and the retry/backoff         *)
(* executor (apiCallWithRetry, handleRateLimit).                           *)
(*                                                                         *)
(* JavaScript runs each callback to completion: everything a handler does  *)
(* up to its next await on I/O or a timer is one action here, and the      *)
(* promise reactions that follow the settling of a promise (microtasks)    *)
(* run before the next I/O callback, so they belong to the same action.    *)
(***************************************************************************)
EXTENDS Integers, Sequences, FiniteSets, Bags, TLC

(* ------------------------------ bounds --------------------------------- *)
\* number of API requests the token-lifecycle specification dispatches
NumCalls == 3

Procs == 1..NumCalls

(* ---------------------------- program state ---------------------------- *)
VARIABLES
  tokens,               \* SpotifyService.tokens: [access_token, refresh_token]
  tokenRefreshPromise,  \* 0 (null) or the id of the pending refresh
  defaultAuthorization, \* api.defaults.headers.common.Authorization
  stored,               \* the credential store (AuthService.store 'tokens')
  refreshes,            \* the refresh promises created so far, by id
  req,                  \* the requests given to the axios instance
  apiSends,             \* requests put on the wire to the catalog API
  anyResponse,          \* some catalog response has arrived already
  now,                  \* Date.now(), in ms
  requestTimestamps,    \* SpotifyService.requestTimestamps
  admitLog,             \* every admission throttleRequests has recorded, in order
  sleepers,             \* wake times of the callers suspended in throttleRequests
  arrived,              \* callers that have entered throttleRequests
  currentDelayMs,       \* SpotifyService.currentDelayMs, in 1/32 ms
  call,                 \* the running apiCallWithRetry: position, attempt, timer
  history,              \* the invocations of the wrapped call, with their results
  random,               \* what Math.random() returns in this run, in hundredths
  serverFollowed,       \* the artist IDs the user follows, at the catalog
  followStatusCache,    \* SpotifyService.followStatusCache, by artist ID
  followedArtistsCache, \* SpotifyService.followedArtistsCache, or NoEntry
  followedArtistsCacheByLimit, \* SpotifyService.followedArtistsCacheByLimit
  bulk,                 \* the running followArtistsBulk: position and locals
  artistDetailsCache,   \* SpotifyService.artistDetailsCache, by artist ID
  playlistAnalysisCache,\* SpotifyService.playlistAnalysisCache, by playlist ID
  analyses,             \* the analyzePlaylist calls: position and locals
  analysisLog,          \* the calls that analysed over the network, as they ended
  heap,                 \* the objects of the JavaScript heap, by reference
  held,                 \* references to the objects callers of the facade hold
  entries,              \* references to the objects the caches hold, with the
                        \* value each had when it was put
  mutations,            \* how often a caller has written to an object it holds
  scan,                 \* the running scanRecentReleases: position and locals
  fetches,              \* the getRecentReleasesForArtist calls of the batch
  albums,               \* the running getTracksFromAlbums: position and locals
  relatedArtistsCache,  \* SpotifyService.relatedArtistsCache, by artist ID
  lookup,               \* the lookup in a cache that has just answered: its
                        \* time, the entries it could use, what it handed out
  spotifyService,       \* index.ts: 0 (null) or the number of the instance
  ipc,                  \* the invocations of the IPC handlers, in order
  callers,              \* the apiCallWithRetry calls that run side by side
  creation,             \* the running creation of a playlist: position and locals
  albumTrackCache,      \* SpotifyService.albumTrackCache, by album ID
  ui                    \* ReleaseFinder: its state and its running handleScan calls

authVars == <<tokens, tokenRefreshPromise, defaultAuthorization, stored,
              refreshes, req, apiSends, anyResponse>>

gateVars == <<now, requestTimestamps, admitLog, sleepers, arrived>>

retryVars == <<currentDelayMs, call, history, random>>

\* the caches of the facade and its running operations
\* the follow graph, the caches and the calls that work on them
statusVars == <<serverFollowed, followStatusCache, followedArtistsCache,
                followedArtistsCacheByLimit, bulk, artistDetailsCache,
                playlistAnalysisCache, analyses, analysisLog>>

\* the objects of the cached values
objectVars == <<heap, held, entries, mutations>>

\* the release scan and the collection of album tracks
scanVars == <<scan, fetches>>

\* the cache of related artists and the lookups in the caches
\* the session of the main process and the invocations of its handlers
ipcVars == <<spotifyService, ipc>>

playlistVars == <<creation, albumTrackCache>>
hubVars == <<relatedArtistsCache, lookup, ipcVars, callers, playlistVars, ui>>

facadeVars == <<statusVars, objectVars, scanVars, albums, hubVars>>

\* what the calls on follows and analyses leave alone: everything below the
\* facade except the clock, and the other operations of the facade
coreVars == <<authVars, requestTimestamps, admitLog, sleepers, arrived, retryVars,
              objectVars, scanVars, albums, hubVars>>

vars == <<authVars, gateVars, retryVars, facadeVars>>

(* --------------------------- adaptive delay ---------------------------- *)
DEFAULT_DELAY_MS == 200
MAX_DYNAMIC_DELAY_MS == 2000

\* currentDelayMs is multiplied by 1.5 at most five times between two integer
\* values (200 * 1.5^6 > 2000), so it is a multiple of 1/32 ms: it is kept in
\* that unit, and Ms converts milliseconds to it
Ms(ms) == ms * 32

Min(a, b) == IF a < b THEN a ELSE b
Max(a, b) == IF a > b THEN a ELSE b

\* the apiCallWithRetry of the model before it is called
NoCall ==
  [pc |-> "idle", attempt |-> 0, wake |-> 0, result |-> "none", settledAt |-> 0,
   admissions |-> 0,
   thrown |-> [fresh |-> FALSE, text |-> "", attempts |-> 0, of |-> 0, n |-> 0]]

(* ------------------------------ caches --------------------------------- *)
\* a cache slot that holds nothing (null, or no entry under the key)
NoEntry == [timestamp |-> -1]

\* followArtistsBulk before it is called
NoBulk ==
  [pc |-> "idle", artistIds |-> <<>>, i |-> 0, followedCount |-> 0,
   failedArtists |-> <<>>, succeededIds |-> <<>>, wake |-> 0, calls |-> <<>>]

\* number of analyzePlaylist calls
NumAnalyses == 2
Analyses == 1..NumAnalyses

\* analyzePlaylist before it is called
NoAnalysis ==
  [pc |-> "idle", playlistId |-> 0, startedAt |-> -1, finishedAt |-> -1,
   prev |-> 0, reported |-> {}, net |-> 0, offset |-> 0, requested |-> <<>>, visited |-> <<>>,
   artists |-> <<>>, keys |-> <<>>, frequency |-> <<>>, toHydrate |-> <<>>,
   i |-> 0, chunks |-> <<>>, followedIds |-> {}, idsToFetch |-> <<>>,
   answer |-> <<>>, answered |-> FALSE, response |-> <<>>, progress |-> <<>>,
   playlistUrl |-> <<>>]

\* scanRecentReleases and getTracksFromAlbums before they are called
NoScan ==
  [pc |-> "idle", sinceDate |-> 0, maxArtists |-> 0, after |-> 0,
   requested |-> <<>>, visited |-> <<>>, ended |-> "", artists |-> <<>>,
   artistsToCheck |-> <<>>, batchStart |-> 0, releases |-> <<>>,
   seenAlbumIds |-> {}, seen |-> {}, started |-> <<>>, fulfilled |-> <<>>,
   rejected |-> {}, progress |-> <<>>,
   totalArtistsChecked |-> 0]
NoAlbums ==
  [pc |-> "idle", albumIds |-> <<>>, i |-> 0, offset |-> 0, tracks |-> <<>>,
   next |-> FALSE, k |-> 0, requested |-> <<>>, visited |-> <<>>,
   allTracks |-> <<>>, failed |-> {}, ended |-> <<>>]

\* ReleaseFinder when it is mounted: nothing running, nothing shown
NoUi ==
  [isScanning |-> FALSE, isCreatingPlaylist |-> FALSE, canCancel |-> FALSE,
   progress |-> FALSE, handlers |-> <<>>]

\* createPlaylistFromReleases and createPlaylistFromTracks before they are called
NoCreation ==
  [pc |-> "idle", from |-> "", releases |-> <<>>, created |-> FALSE,
   uniqueAlbumIds |-> <<>>, i |-> 0, batch |-> <<>>, k |-> 0, offset |-> 0,
   collected |-> <<>>, albumTrackMap |-> <<>>, trackIds |-> <<>>,
   requests |-> <<>>, tracksAdded |-> 0]

\* no object allocated, no scan and no collection of tracks running
\* what a lookup in a cache hands to its caller when it uses no entry
Miss == [hit |-> FALSE, timestamp |-> 0, value |-> <<>>]
\* no lookup yet
NoLookup == [kind |-> "none", at |-> 0, eligible |-> {}, returned |-> Miss]

InitOthers ==
  /\ heap = <<>> /\ held = {} /\ entries = <<>> /\ mutations = 0
  /\ scan = NoScan /\ fetches = <<>>
  /\ albums = NoAlbums
  /\ relatedArtistsCache = <<>> /\ lookup = NoLookup
  /\ spotifyService = 1 /\ ipc = <<>>
  /\ callers = <<>>
  /\ creation = NoCreation /\ albumTrackCache = <<>>
  /\ ui = NoUi

\* the facade as constructed: empty caches, no operation running
InitFacade ==
  /\ serverFollowed = {}
  /\ followStatusCache = <<>>
  /\ followedArtistsCache = NoEntry
  /\ followedArtistsCacheByLimit = <<>>
  /\ bulk = NoBulk
  /\ artistDetailsCache = <<>>
  /\ playlistAnalysisCache = <<>>
  /\ analyses = [a \in Analyses |-> NoAnalysis]
  /\ analysisLog = <<>>
  /\ InitOthers

(* ------------------------- token lifecycle ----------------------------- *)
\* `null`, the value refreshAccessToken resolves to on failure
Null == 0
\* a request's `refreshed` before its await has returned
Unset == -1
\* the access token the service is constructed with
InitialToken == 1

\* a response header that may be missing
NoHeader == [present |-> FALSE, text |-> <<>>]
Header(text) == [present |-> TRUE, text |-> text]

\* what comes back for a request: an HTTP status (0: none, the connection
\* failed with error.code) and the retry-after header
Answer(status, code, retryAfter) ==
  [status |-> status, code |-> code, retryAfter |-> retryAfter]

NoError == [status |-> 0, code |-> "", retryAfter |-> NoHeader, of |-> 0, n |-> 0]

NewRequest ==
  [st |-> "idle", retry |-> FALSE, authorization |-> Null, sends |-> 0,
   responses |-> 0, err |-> NoError, first |-> 0, last |-> 0, early |-> FALSE,
   awaits |-> 0, waitsOn |-> 0, refreshed |-> Unset]

\* injectAuthorization: the request interceptor stamps the current token
injectAuthorization(r) == [r EXCEPT !.authorization = tokens.access_token]

\* this.api(config): interceptor, then the request goes on the wire
Send(r, tok) == [r EXCEPT !.st = "sent", !.authorization = tok, !.sends = @ + 1]

\* AuthService.refreshAccessToken: the token the issuer mints for refresh id
MintedToken(id) == id + 1

\* the requests awaiting refresh promise id
Waiters(id) == {p \in Procs : req[p].st = "awaitRefresh" /\ req[p].waitsOn = id}


\* the error object axios rejects with: response n of request p
ErrorOf(resp, p, n) ==
  [status |-> resp.status, code |-> resp.code, retryAfter |-> resp.retryAfter,
   of |-> p, n |-> n]

Reject(r, e) == [r EXCEPT !.st = "rejected", !.err = e]

\* mutant: the _retry mark is never looked at
AlreadyRetried_Never(r) == FALSE

\* handleUnauthorized, line 116: the request was already replayed once
AlreadyRetried(r) == r.retry

\* mutant: the missing refresh token goes unnoticed
HasRefreshToken_Assumed == TRUE

\* refreshAccessToken, lines 133-135: without a refresh token it returns null
HasRefreshToken == tokens.refresh_token

\* mutant: every 401 starts a refresh of its own
MustStartRefresh_Always == TRUE

\* refreshAccessToken, line 137: a refresh is started only when the slot is empty
MustStartRefresh == tokenRefreshPromise = Null

\* handleUnauthorized up to its await (refreshAccessToken inlined), for request
\* record r of p and its error e: the new record, and whether the issuer is called
handleUnauthorized(r, e) ==
  IF e.status # 401 \/ AlreadyRetried(r)
  THEN \* lines 109-118: not a 401, or already retried: rethrown as it is
       [r |-> Reject(r, e), start |-> FALSE]
  ELSE IF ~HasRefreshToken
  THEN \* refreshed = null, line 123: the original error is thrown
       [r |-> Reject([r EXCEPT !.retry = TRUE, !.refreshed = Null], e), start |-> FALSE]
  ELSE \* lines 137-154: the slot's promise is awaited, a new one if it was empty
       [r |-> [r EXCEPT !.st = "awaitRefresh", !.retry = TRUE, !.err = e,
                        !.awaits = @ + 1,
                        !.waitsOn = IF MustStartRefresh THEN Len(refreshes) + 1
                                    ELSE tokenRefreshPromise],
        start |-> MustStartRefresh]

\* this.api(config) by a caller: request p is stamped and sent
Dispatched(p) ==
  [req EXCEPT ![p] = [Send(injectAuthorization(@), tokens.access_token)
                        EXCEPT !.early = ~anyResponse]]

\* a caller hands request p to the axios instance
Dispatch(p) ==
  /\ req[p].st = "idle"
  /\ req' = Dispatched(p)
  /\ apiSends' = apiSends + 1
  /\ UNCHANGED <<tokens, tokenRefreshPromise, defaultAuthorization, stored,
                 refreshes, anyResponse>>
  /\ UNCHANGED <<gateVars, retryVars, facadeVars>>

\* the catalog API answers request p: the response interceptors run
Responds(p, resp) ==
  /\ req[p].st = "sent"
  /\ anyResponse' = TRUE
  /\ LET n == req[p].responses + 1
         r == [req[p] EXCEPT !.responses = n, !.last = resp.status,
                             !.first = IF n = 1 THEN resp.status ELSE @]
         out == IF resp.status = 200
                THEN [r |-> [r EXCEPT !.st = "fulfilled"], start |-> FALSE]
                ELSE handleUnauthorized(r, ErrorOf(resp, p, n))
     IN /\ req' = [req EXCEPT ![p] = out.r]
        /\ IF out.start
           THEN /\ refreshes' = Append(refreshes, [st |-> "pending", value |-> Null])
                /\ tokenRefreshPromise' = Len(refreshes) + 1
           ELSE UNCHANGED <<tokenRefreshPromise, refreshes>>
  /\ UNCHANGED <<tokens, defaultAuthorization, stored, apiSends>>

\* the answer to a request that no apiCallWithRetry of the model is awaiting
Respond(p, resp) ==
  /\ Responds(p, resp)
  /\ UNCHANGED <<gateVars, retryVars, facadeVars>>

\* what the token issuer call and the .then handler can come to
IssuerOutcomes == {"issued", "issuer_error", "store_throws"}

\* handleUnauthorized after its await, lines 122-129
Resume(r, refreshed, tok) ==
  IF refreshed = Null
  THEN Reject([r EXCEPT !.refreshed = Null], r.err)
  ELSE Send([r EXCEPT !.refreshed = refreshed, !.authorization = refreshed], tok)

\* this.tokens once the issuer has answered: setTokens runs in the .then handler
\* (line 141), which a failed issuer call skips
TokensAfter(outcome, newTokens) ==
  IF outcome = "issuer_error" THEN tokens ELSE newTokens

\* mutant: the slot is cleared by the .then handler only
SlotAfter_KeptOnFailure(outcome, id) == IF outcome = "issued" THEN Null ELSE id
\* lines 151-153: .finally empties the slot, whatever the outcome
SlotAfter(outcome, id) == Null

\* the token issuer answers the pending refresh: .then / .catch / .finally run,
\* and then the continuation of every handleUnauthorized awaiting the promise
Settles(outcome) ==
  /\ tokenRefreshPromise # Null
  /\ LET id == tokenRefreshPromise
         newTokens == [access_token |-> MintedToken(id),
                       refresh_token |-> tokens.refresh_token]
         value == IF outcome = "issued" THEN newTokens.access_token ELSE Null
         now_tokens == TokensAfter(outcome, newTokens)
     IN /\ tokens' = now_tokens                                  \* setTokens, line 158
        /\ defaultAuthorization' = now_tokens.access_token          \* line 159
        /\ stored' = IF outcome = "issued" THEN newTokens ELSE stored \* storeTokens
        /\ refreshes' = [refreshes EXCEPT ![id] =
                           [st |-> IF value = Null THEN "failed" ELSE "done",
                            value |-> value]]
        /\ tokenRefreshPromise' = SlotAfter(outcome, id)
        /\ req' = [p \in Procs |->
                     IF p \in Waiters(id)
                     THEN Resume(req[p], value, now_tokens.access_token)
                     ELSE req[p]]
        /\ apiSends' = apiSends + (IF value = Null THEN 0 ELSE Cardinality(Waiters(id)))
  /\ UNCHANGED anyResponse

\* the refresh settles while no apiCallWithRetry of the model awaits a request
RefreshSettles(outcome) ==
  /\ Settles(outcome)
  /\ UNCHANGED <<gateVars, retryVars, facadeVars>>

(* ----------------- specification of the token lifecycle ----------------- *)
\* the answers of the catalog API that the token lifecycle tells apart
AuthResponses ==
  {Answer(200, "", NoHeader), Answer(401, "ERR_BAD_REQUEST", NoHeader),
   Answer(500, "ERR_BAD_RESPONSE", NoHeader)}

InitAuth ==
  /\ tokens \in [access_token : {InitialToken}, refresh_token : BOOLEAN]
  /\ tokenRefreshPromise = Null
  /\ defaultAuthorization = InitialToken
  /\ stored = tokens
  /\ refreshes = <<>>
  /\ req = [p \in Procs |-> NewRequest]
  /\ apiSends = 0
  /\ anyResponse = FALSE
  /\ now = 0 /\ requestTimestamps = <<>> /\ admitLog = <<>>
  /\ sleepers = EmptyBag /\ arrived = 0
  /\ currentDelayMs = Ms(DEFAULT_DELAY_MS) /\ call = NoCall /\ history = <<>>
  /\ random = 0
  /\ InitFacade

NextAuth ==
  \/ \E p \in Procs : Dispatch(p)
  \/ \E p \in Procs, resp \in AuthResponses : Respond(p, resp)
  \/ \E outcome \in IssuerOutcomes : RefreshSettles(outcome)

SpecAuth == InitAuth /\ [][NextAuth]_vars

(* --------------------- claims on the token lifecycle -------------------- *)
PendingRefreshes == {i \in DOMAIN refreshes : refreshes[i].st = "pending"}

\* C1: N calls that are outstanding together and each receive a 401 cause
\* exactly one refresh request, whatever the order of their 401 responses and
\* of the refresh's completion, and (the refresh succeeding) each of them is
\* replayed and fails only if its replay is answered with an error.
C1_ExactlyOneRefresh ==
  LET S == {p \in Procs : req[p].st # "idle"} IN
  (S # {} /\ tokens.refresh_token /\ \A p \in S : req[p].early /\ req[p].first = 401)
    => /\ Len(refreshes) = 1
       /\ \A p \in S : req[p].refreshed > Null => req[p].sends = 2
       /\ \A p \in S : (req[p].refreshed > Null /\ req[p].st = "rejected")
                          => req[p].err.n = 2

\* C2: at most one refresh is in flight in every state, and all requests that
\* awaited the same refresh promise got the same outcome, the one new access
\* token or the same null.
C2_SingleFlight ==
  /\ Cardinality(PendingRefreshes) <= 1
  /\ tokenRefreshPromise # Null => PendingRefreshes = {tokenRefreshPromise}
  /\ \A p \in Procs : (req[p].waitsOn # 0 /\ req[p].refreshed # Unset)
        => /\ refreshes[req[p].waitsOn].st # "pending"
           /\ req[p].refreshed = refreshes[req[p].waitsOn].value
  /\ \A p, q \in Procs :
        (req[p].waitsOn # 0 /\ req[p].waitsOn = req[q].waitsOn
           /\ req[p].st # "awaitRefresh" /\ req[q].st # "awaitRefresh")
        => req[p].refreshed = req[q].refreshed

\* two requests shared one refresh, and it succeeded
C2_Witness ==
  \E p, q \in Procs :
     /\ p # q /\ req[p].waitsOn # 0 /\ req[p].waitsOn = req[q].waitsOn
     /\ req[p].refreshed > Null /\ req[q].refreshed > Null

\* C3: a request whose 401 led to a successful refresh is sent again exactly
\* once, carrying the new access token; a 401 on that replay asks for no
\* further refresh and is what the request is rejected with.
C3_ReplayOnce ==
  \A p \in Procs :
     /\ req[p].sends <= 2 /\ req[p].awaits <= 1
     /\ req[p].sends = 2 => (req[p].first = 401 /\ req[p].refreshed > Null)
     /\ req[p].refreshed > Null
          => /\ req[p].sends = 2
             /\ req[p].authorization = req[p].refreshed
             /\ req[p].retry
     /\ (req[p].responses = 2 /\ req[p].last = 401)
          => /\ req[p].st = "rejected"
             /\ req[p].err = ErrorOf(Answer(401, "ERR_BAD_REQUEST", NoHeader), p, 2)

\* a replay was itself answered 401
C3_Witness ==
  \E p \in Procs : req[p].refreshed > Null /\ req[p].responses = 2 /\ req[p].last = 401

\* C4: when the refresh fails, or there is no refresh token, each waiting
\* request is rejected with its own first 401 error and is not sent again;
\* without a refresh token the token issuer is never called.
C4_RefreshFailurePropagates ==
  /\ \A p \in Procs : req[p].refreshed = Null
        => /\ req[p].st = "rejected"
           /\ req[p].err = ErrorOf(Answer(401, "ERR_BAD_REQUEST", NoHeader), p, 1)
           /\ req[p].sends = 1
  /\ ~tokens.refresh_token => refreshes = <<>>

\* two requests waited on a refresh that failed
C4_Witness ==
  \E p, q \in Procs :
     /\ p # q /\ req[p].waitsOn # 0 /\ req[p].waitsOn = req[q].waitsOn
     /\ req[p].refreshed = Null /\ req[q].refreshed = Null

(* ------------------------------ rate gate ------------------------------- *)
MAX_REQUESTS_PER_INTERVAL == 15
REQUEST_INTERVAL_MS == 1000

\* bounds of the rate gate specification: the callers, and the instants at
\* which the clock is read
NumGateCallers == 17
TimePoints == {0, 600, 1000, 1025, 1625}

\* throttleRequests, lines 263-265: the timestamps still inside the window
InWindow(ts, t) == SelectSeq(ts, LAMBDA timestamp : t - timestamp < REQUEST_INTERVAL_MS)

\* mutant: the ceiling is compared with <= instead of <
HasRoom_OffByOne(ts) == Len(ts) <= MAX_REQUESTS_PER_INTERVAL

\* throttleRequests, line 267
HasRoom(ts) == Len(ts) < MAX_REQUESTS_PER_INTERVAL

\* mutant: the wait is the age of the earliest timestamp
WaitTime_AgeOfEarliest(ts, t) == t - ts[1]

\* throttleRequests, lines 272-273
WaitTime(ts, t) == REQUEST_INTERVAL_MS - (t - ts[1]) + 25

\* one pass of the loop of throttleRequests at time t: the list it leaves,
\* whether the caller is admitted, and else when its delay expires
throttleRequests(ts, t) ==
  LET kept == InWindow(ts, t) IN
  IF HasRoom(kept)
  THEN [timestamps |-> Append(kept, t), admitted |-> TRUE, wake |-> t]
  ELSE [timestamps |-> kept, admitted |-> FALSE, wake |-> t + WaitTime(kept, t)]

\* the effect of one pass at time t on the gate's state
GatePass(out, t) ==
  /\ requestTimestamps' = out.timestamps
  /\ admitLog' = IF out.admitted THEN Append(admitLog, t) ELSE admitLog

\* a caller enters throttleRequests
Arrive ==
  /\ arrived < NumGateCallers
  /\ arrived' = arrived + 1
  /\ LET out == throttleRequests(requestTimestamps, now) IN
       /\ GatePass(out, now)
       /\ sleepers' = IF out.admitted THEN sleepers ELSE sleepers (+) SetToBag({out.wake})
  /\ UNCHANGED now
  /\ UNCHANGED <<authVars, retryVars, facadeVars>>

\* the delay of a suspended caller has expired: it takes the loop again
WakeUp(w) ==
  /\ BagIn(w, sleepers)
  /\ now >= w
  /\ LET out == throttleRequests(requestTimestamps, now) IN
       /\ GatePass(out, now)
       /\ sleepers' = IF out.admitted THEN sleepers (-) SetToBag({w})
                      ELSE (sleepers (-) SetToBag({w})) (+) SetToBag({out.wake})
  /\ UNCHANGED <<now, arrived>>
  /\ UNCHANGED <<authVars, retryVars, facadeVars>>

\* time passes
Tick(t) ==
  /\ t > now
  /\ now' = t
  /\ UNCHANGED <<requestTimestamps, admitLog, sleepers, arrived>>
  /\ UNCHANGED <<authVars, retryVars, facadeVars>>

InitGate ==
  /\ now = 0 /\ requestTimestamps = <<>> /\ admitLog = <<>>
  /\ sleepers = EmptyBag /\ arrived = 0
  /\ tokens = [access_token |-> InitialToken, refresh_token |-> TRUE]
  /\ tokenRefreshPromise = Null
  /\ defaultAuthorization = InitialToken
  /\ stored = tokens
  /\ refreshes = <<>>
  /\ req = [p \in Procs |-> NewRequest]
  /\ apiSends = 0
  /\ anyResponse = FALSE
  /\ currentDelayMs = Ms(DEFAULT_DELAY_MS) /\ call = NoCall /\ history = <<>>
  /\ random = 0
  /\ InitFacade

NextGate ==
  \/ Arrive
  \/ \E w \in BagToSet(sleepers) : WakeUp(w)
  \/ \E t \in TimePoints : Tick(t)

SpecGate == InitGate /\ [][NextGate]_vars

(* ------------------------- claims on the rate gate ----------------------- *)
\* the admissions recorded in the window (t - REQUEST_INTERVAL_MS, t]
AdmittedInWindow(t) ==
  {j \in DOMAIN admitLog : admitLog[j] > t - REQUEST_INTERVAL_MS /\ admitLog[j] <= t}

\* C5: under every interleaving of callers, each admission at time t sees at
\* most MAX_REQUESTS_PER_INTERVAL admissions with timestamps in (t - 1000, t].
C5_CeilingPerWindow ==
  \A i \in DOMAIN admitLog :
     Cardinality(AdmittedInWindow(admitLog[i])) <= MAX_REQUESTS_PER_INTERVAL

\* a caller was admitted into a window that it filled, after older admissions
\* had left the window and while another caller had been made to wait
C5_Witness ==
  /\ arrived > MAX_REQUESTS_PER_INTERVAL
  /\ \E i \in DOMAIN admitLog :
        /\ Cardinality(AdmittedInWindow(admitLog[i])) = MAX_REQUESTS_PER_INTERVAL
        /\ admitLog[1] <= admitLog[i] - REQUEST_INTERVAL_MS
  /\ \E w \in BagToSet(sleepers) : w > now

(* ------------------------ retry / backoff executor ---------------------- *)
RATE_LIMIT_RETRY_DEFAULT == 5
MAX_RATE_LIMIT_WAIT_SECONDS == 30
\* apiCallWithRetry's default maxRetries
maxRetries == 5

Digits == {"0", "1", "2", "3", "4", "5", "6", "7", "8", "9"}
DigitValue(c) ==
  CASE c = "0" -> 0 [] c = "1" -> 1 [] c = "2" -> 2 [] c = "3" -> 3 [] c = "4" -> 4
    [] c = "5" -> 5 [] c = "6" -> 6 [] c = "7" -> 7 [] c = "8" -> 8 [] c = "9" -> 9

RECURSIVE SkipSpaces(_)
SkipSpaces(text) ==
  IF text # <<>> /\ text[1] = " " THEN SkipSpaces(Tail(text)) ELSE text

\* the value of the leading digits of text, after acc; seen: a digit was read
RECURSIVE LeadingDigits(_, _, _)
LeadingDigits(text, acc, seen) ==
  IF text # <<>> /\ text[1] \in Digits
  THEN LeadingDigits(Tail(text), acc * 10 + DigitValue(text[1]), TRUE)
  ELSE [nan |-> ~seen, value |-> acc]

\* parseInt(text, 10): leading white space, a sign, then the leading digits;
\* NaN when there is no digit
parseInt(text) ==
  LET t == SkipSpaces(text)
      signed == t # <<>> /\ t[1] \in {"+", "-"}
      d == LeadingDigits(IF signed THEN Tail(t) ELSE t, 0, FALSE)
  IN [nan |-> d.nan, value |-> IF signed /\ t[1] = "-" THEN 0 - d.value ELSE d.value]

\* handleRateLimit, lines 280-284: the wait the server asks for, in seconds
\* (a missing header and the empty string are falsy)
RequestedWait(retryAfter) ==
  IF retryAfter.present /\ retryAfter.text # <<>>
  THEN LET n == parseInt(retryAfter.text) IN
       IF n.nan THEN RATE_LIMIT_RETRY_DEFAULT ELSE n.value
  ELSE RATE_LIMIT_RETRY_DEFAULT

\* mutant: no ceiling on the requested wait (the wait is only clamped)
ExceedsCeiling_Never(requestedWait) == FALSE

\* handleRateLimit, line 286
ExceedsCeiling(requestedWait) == requestedWait > MAX_RATE_LIMIT_WAIT_SECONDS

\* mutant: the extra second is forgotten
RateLimitSleepMs_NoMargin(requestedWait) ==
  Min(requestedWait, MAX_RATE_LIMIT_WAIT_SECONDS) * 1000

\* handleRateLimit, lines 294-296: the sleep, in ms
RateLimitSleepMs(requestedWait) ==
  (Min(requestedWait, MAX_RATE_LIMIT_WAIT_SECONDS) + 1) * 1000

\* mutant: the delay grows without a ceiling
Grow_Unclamped(delay) == (delay * 3) \div 2
\* handleRateLimit, line 297
Grow(delay) == Min((delay * 3) \div 2, Ms(MAX_DYNAMIC_DELAY_MS))

\* apiCallWithRetry, line 311: floor(currentDelayMs * 0.9), not below the default
Decay(delay) == Max(Ms(DEFAULT_DELAY_MS), Ms((delay * 9) \div (10 * 32)))

\* the values of Math.random() that are tried, in hundredths
RandomChoices == {0, 99}

\* apiCallWithRetry, lines 308-309: the delay before the call, in whole ms
\* (a timer does not fire before the whole milliseconds of its delay)
AdaptiveDelayMs(delay) == (delay + (random * delay * 3) \div 1000) \div 32

NetworkCodes == {"ECONNRESET", "ETIMEDOUT", "ECONNABORTED"}

\* mutant: the budget is taken to end one attempt early
IsLastAttempt_Early(attempt) == attempt = maxRetries - 2

\* apiCallWithRetry, lines 325 and 339
IsLastAttempt(attempt) == attempt = maxRetries - 1

\* mutant: a 429 does not use up an attempt
AttemptAfterRateLimit_Same(attempt) == attempt

\* apiCallWithRetry, lines 316-317: `continue` runs the loop's attempt++
AttemptAfterRateLimit(attempt) == attempt + 1

RECURSIVE Pow2(_)
Pow2(n) == IF n = 0 THEN 1 ELSE 2 * Pow2(n - 1)

\* apiCallWithRetry, lines 328 and 343: the backoff sleeps, in ms
NetworkBackoffMs(attempt) == Pow2(attempt) * 2000
GenericBackoffMs(attempt) == Pow2(attempt) * 1000

\* the top of the loop for attempt a at time t: `await this.throttleRequests()`
\* takes its first pass at once, then lines 308-309 start the adaptive delay
\* from the value currentDelayMs has then
EnterAttempt(a, t, delay) ==
  LET out == throttleRequests(requestTimestamps, t) IN
  /\ GatePass(out, t)
  /\ call' = [call EXCEPT
       !.attempt = a,
       !.pc = IF out.admitted THEN "delay" ELSE "gateWait",
       !.wake = IF out.admitted THEN t + AdaptiveDelayMs(delay)
                ELSE out.wake,
       !.admissions = IF out.admitted THEN @ + 1 ELSE @]

\* what a call throws: an error made on the spot, with its text, the count
\* of attempts it states and the error whose message it quotes; or the very
\* error object the wrapped call has rejected with (response n of request of)
NewError(text, attempts, cause) ==
  [fresh |-> TRUE, text |-> text, attempts |-> attempts, of |-> cause.of, n |-> cause.n]
SameError(e) == [fresh |-> FALSE, text |-> "", attempts |-> 0, of |-> e.of, n |-> e.n]

\* mutant: the network error of the last attempt is thrown as it came
NetworkErrorAfter_Same(e) == SameError(e)
\* line 326
NetworkErrorAfter(e) == NewError("Network error after attempts", maxRetries, e)

\* the loop ends without a result, line 349
ThrowMaxRetries(t) ==
  /\ call' = [call EXCEPT !.pc = "threw", !.result = "MaxRetriesExceeded",
                          !.attempt = maxRetries, !.settledAt = t,
                          !.thrown = NewError("Max retries exceeded", 0, NoError)]
  /\ UNCHANGED <<requestTimestamps, admitLog>>

\* apiCallWithRetry is called with one wrapped call
StartCall ==
  /\ call.pc = "idle"
  /\ EnterAttempt(0, now, currentDelayMs)
  /\ UNCHANGED <<now, sleepers, arrived, currentDelayMs, history, random>>
  /\ UNCHANGED <<authVars, facadeVars>>

\* the gate's delay has expired: throttleRequests takes its loop again
GateRetry ==
  /\ call.pc = "gateWait"
  /\ now' = Max(now, call.wake)
  /\ EnterAttempt(call.attempt, now', currentDelayMs)
  /\ UNCHANGED <<sleepers, arrived, currentDelayMs, history, random>>
  /\ UNCHANGED <<authVars, facadeVars>>

\* the adaptive delay has expired, line 310: the wrapped call is invoked, a
\* new request goes through the axios instance
InvokeApiCall ==
  /\ call.pc = "delay"
  /\ now' = Max(now, call.wake)
  /\ call' = [call EXCEPT !.pc = "calling"]
  /\ req' = [req EXCEPT ![1] = Send(injectAuthorization(NewRequest), tokens.access_token)]
  /\ apiSends' = apiSends + 1
  /\ history' = Append(history, [at |-> now', res |-> "pending", err |-> NoError,
                                 doneAt |-> 0, delayAt |-> 0])
  /\ UNCHANGED <<tokens, tokenRefreshPromise, defaultAuthorization, stored,
                 refreshes, anyResponse>>
  /\ UNCHANGED <<requestTimestamps, admitLog, sleepers, arrived, currentDelayMs, random>>
  /\ UNCHANGED facadeVars

\* the result of the wrapped call is written to the history
Noted(res, e) ==
  [history EXCEPT ![Len(history)] =
     [@ EXCEPT !.res = res, !.err = e, !.doneAt = now, !.delayAt = currentDelayMs]]

Threw(result, thrown) ==
  /\ call' = [call EXCEPT !.pc = "threw", !.result = result, !.settledAt = now,
                          !.thrown = thrown]

Sleep(pc, ms) ==
  /\ call' = [call EXCEPT !.pc = pc, !.wake = now + ms]

\* the catch block of apiCallWithRetry for error e, lines 313-346, with
\* handleRateLimit up to its delay
Catch(e) ==
  /\ history' = Noted("error", e)
  /\ IF e.status = 429
     THEN IF ExceedsCeiling(RequestedWait(e.retryAfter))
          THEN Threw("RateLimitExceeded", NewError("Spotify rate limit exceeded", 0, NoError))
          ELSE Sleep("rateLimitWait", RateLimitSleepMs(RequestedWait(e.retryAfter)))
     ELSE IF e.code \in NetworkCodes
     THEN IF IsLastAttempt(call.attempt)
          THEN Threw("NetworkError", NetworkErrorAfter(e))
          ELSE Sleep("backoff", NetworkBackoffMs(call.attempt))
     ELSE IF IsLastAttempt(call.attempt)
          THEN Threw("Rethrown", SameError(e))
          ELSE Sleep("backoff", GenericBackoffMs(call.attempt))
  /\ UNCHANGED <<currentDelayMs, random>>

\* what apiCallWithRetry does when the promise of the wrapped call, whose
\* request is now r, settles; nothing while the request is still under way
Continue(r) ==
  /\ IF r.st = "fulfilled"
     THEN \* lines 311-312
          /\ currentDelayMs' = Decay(currentDelayMs)
          /\ call' = [call EXCEPT !.pc = "returned", !.result = "ok", !.settledAt = now]
          /\ history' = Noted("ok", NoError)
          /\ UNCHANGED random
     ELSE IF r.st = "rejected"
     THEN Catch(r.err)
     ELSE UNCHANGED retryVars
  /\ UNCHANGED <<gateVars, facadeVars>>

\* the catalog API answers the request of the wrapped call
CallAnswered(resp) ==
  /\ call.pc = "calling"
  /\ Responds(1, resp)
  /\ Continue(req'[1])

\* the token refresh that the request of the wrapped call awaits settles
CallRefreshSettles(outcome) ==
  /\ call.pc = "calling"
  /\ Settles(outcome)
  /\ Continue(req'[1])

\* the 429 sleep has expired, lines 297-298 and 317
AfterRateLimitWait ==
  /\ call.pc = "rateLimitWait"
  /\ now' = Max(now, call.wake)
  /\ currentDelayMs' = Grow(currentDelayMs)
  /\ IF AttemptAfterRateLimit(call.attempt) < maxRetries
     THEN EnterAttempt(AttemptAfterRateLimit(call.attempt), now', Grow(currentDelayMs))
     ELSE ThrowMaxRetries(now')
  /\ UNCHANGED <<sleepers, arrived, history, random>>
  /\ UNCHANGED <<authVars, facadeVars>>

\* a backoff sleep has expired, lines 334-335 and 345
AfterBackoff ==
  /\ call.pc = "backoff"
  /\ now' = Max(now, call.wake)
  /\ EnterAttempt(call.attempt + 1, now', currentDelayMs)
  /\ UNCHANGED <<sleepers, arrived, currentDelayMs, history, random>>
  /\ UNCHANGED <<authVars, facadeVars>>

\* the answers of the catalog API that apiCallWithRetry tells apart
RetryAfterHeaders ==
  {NoHeader, Header(<<"3">>), Header(<<"3", "0">>), Header(<<"3", "1">>),
   Header(<<"x">>), Header(<<" ", "2", ".", "5">>)}

RetryResponses ==
  {Answer(200, "", NoHeader), Answer(500, "ERR_BAD_RESPONSE", NoHeader),
   Answer(0, "ECONNRESET", NoHeader)}
  \cup {Answer(429, "ERR_BAD_REQUEST", h) : h \in RetryAfterHeaders}

\* the gate as earlier calls can have left it: empty, or filled at time 0
FullGate == [i \in 1..MAX_REQUESTS_PER_INTERVAL |-> 0]

InitRetry ==
  /\ tokens = [access_token |-> InitialToken, refresh_token |-> TRUE]
  /\ tokenRefreshPromise = Null
  /\ defaultAuthorization = InitialToken
  /\ stored = tokens
  /\ refreshes = <<>>
  /\ req = [p \in Procs |-> NewRequest]
  /\ apiSends = 0
  /\ anyResponse = FALSE
  /\ now = 0
  /\ requestTimestamps \in {<<>>, FullGate}
  /\ admitLog = requestTimestamps
  /\ sleepers = EmptyBag /\ arrived = 0
  /\ currentDelayMs = Ms(DEFAULT_DELAY_MS) /\ call = NoCall /\ history = <<>>
  /\ random \in RandomChoices
  /\ InitFacade

\* one apiCallWithRetry whose wrapped call is answered 200, 429, 500 or not at all
NextRetry ==
  \/ StartCall
  \/ GateRetry
  \/ InvokeApiCall
  \/ \E resp \in RetryResponses : CallAnswered(resp)
  \/ AfterRateLimitWait
  \/ AfterBackoff

SpecRetry == InitRetry /\ [][NextRetry]_vars

\* the answers that involve the token lifecycle under apiCallWithRetry
ReplayResponses ==
  {Answer(200, "", NoHeader), Answer(401, "ERR_BAD_REQUEST", NoHeader),
   Answer(500, "ERR_BAD_RESPONSE", NoHeader),
   Answer(429, "ERR_BAD_REQUEST", NoHeader)}

\* one apiCallWithRetry whose request can be answered 401
NextReplay ==
  \/ StartCall
  \/ GateRetry
  \/ InvokeApiCall
  \/ \E resp \in ReplayResponses : CallAnswered(resp)
  \/ \E outcome \in IssuerOutcomes : CallRefreshSettles(outcome)
  \/ AfterRateLimitWait
  \/ AfterBackoff

SpecReplay == InitRetry /\ [][NextReplay]_vars

(* ------------------ claims on the retry / backoff executor -------------- *)
Last(seq) == seq[Len(seq)]
Failed(i) == history[i].res = "error"

\* the hint, in seconds, that each retry-after header of the model stands for
HintOf(retryAfter) ==
  CASE retryAfter = NoHeader -> RATE_LIMIT_RETRY_DEFAULT
    [] retryAfter = Header(<<"x">>) -> RATE_LIMIT_RETRY_DEFAULT
    [] retryAfter = Header(<<"3">>) -> 3
    [] retryAfter = Header(<<" ", "2", ".", "5">>) -> 2
    [] retryAfter = Header(<<"3", "0">>) -> 30
    [] retryAfter = Header(<<"3", "1">>) -> 31

RateLimited(i) == Failed(i) /\ history[i].err.status = 429
WithinCeiling(i) == HintOf(history[i].err.retryAfter) <= MAX_RATE_LIMIT_WAIT_SECONDS
NetworkFailure(i) == Failed(i) /\ history[i].err.code \in NetworkCodes
Transient(i) == (RateLimited(i) /\ WithinCeiling(i)) \/ NetworkFailure(i)

\* C6: every request put on the wire to the catalog API, the replay after a
\* token refresh included, was preceded by a rate gate admission of its own.
C6_EverySendAdmitted == apiSends <= call.admissions

\* C7: one apiCallWithRetry invokes the wrapped call at most maxRetries times
\* whatever the answers are; no invocation follows a success, whose result is
\* what is returned; and a call that is not settled can take a further step.
C7_AtMostMaxRetries ==
  /\ Len(history) <= maxRetries
  /\ \A i \in DOMAIN history :
        history[i].res = "ok" => (i = Len(history) /\ call.pc = "returned")
  /\ call.pc = "returned" => (history # <<>> /\ Last(history).res = "ok"
                               /\ call.result = "ok")
  /\ call.pc = "threw" =>
        (call.result # "ok" /\ (history # <<>> => Failed(Len(history))))
  /\ call.pc \notin {"returned", "threw"} => ENABLED NextRetry

\* the fifth invocation succeeded after a 429, a network error and a 500
C7_Witness ==
  /\ Len(history) = maxRetries /\ call.pc = "returned"
  /\ \E i, j, k \in DOMAIN history :
        /\ RateLimited(i) /\ NetworkFailure(j)
        /\ Failed(k) /\ history[k].err.status = 500

\* C8 as stated: a call that was answered only by 429s within the ceiling and
\* transient network errors does not fail.
C8_TransientNeverSurfaces ==
  call.pc = "threw" => \E i \in DOMAIN history : ~Transient(i)

\* C8 amended: a call answered by at most maxRetries - 1 transient failures
\* (429 within the ceiling, network error) and then a success returns that
\* success; it fails on transient failures alone only when all maxRetries
\* invocations were answered by one.
C8_TransientRecoveredWithinBudget ==
  /\ (call.pc = "threw" /\ \A i \in DOMAIN history : Transient(i))
        => Len(history) = maxRetries
  /\ (history # <<>> /\ Last(history).res = "ok"
        /\ \A i \in 1..(Len(history) - 1) : Transient(i))
        => (call.pc = "returned" /\ call.result = "ok")

\* four transient failures of both kinds, then the success is returned
C8_Witness ==
  /\ Len(history) = maxRetries /\ call.pc = "returned" /\ call.result = "ok"
  /\ \A i \in 1..(maxRetries - 1) : Transient(i)
  /\ \E i, j \in 1..(maxRetries - 1) : RateLimited(i) /\ NetworkFailure(j)

\* C9: after a 429 whose hint h is within the ceiling (the default when the
\* header is missing or no number), the wrapped call is not invoked again
\* before h + 1 seconds have passed, and if that invocation succeeds the call
\* returns its result.
C9_WaitsHintPlusOne ==
  \A i \in DOMAIN history :
     (RateLimited(i) /\ WithinCeiling(i)) =>
        /\ i = Len(history) =>
              ( /\ call.pc \in {"rateLimitWait", "gateWait", "delay", "threw"}
                /\ call.pc # "threw" =>
                     call.wake - history[i].doneAt
                        >= (HintOf(history[i].err.retryAfter) + 1) * 1000 )
        /\ i < Len(history) =>
              /\ history[i + 1].at - history[i].doneAt
                    >= (HintOf(history[i].err.retryAfter) + 1) * 1000
              /\ history[i + 1].res = "ok" => (call.pc = "returned" /\ call.result = "ok")

\* a 429 with retry-after: 3 on the first invocation, the second one succeeds
C9_Witness ==
  /\ Len(history) = 2 /\ call.pc = "returned"
  /\ RateLimited(1) /\ history[1].err.retryAfter = Header(<<"3">>)
  /\ history[2].at - history[1].doneAt >= 4000

\* C10: a 429 whose hint exceeds MAX_RATE_LIMIT_WAIT_SECONDS ends the call at
\* once, on any attempt: it fails with the rate-limit-exceeded error, without
\* a further invocation, without a sleep, and with currentDelayMs as it was.
C10_FailsAtOnceAboveCeiling ==
  \A i \in DOMAIN history :
     (RateLimited(i) /\ ~WithinCeiling(i)) =>
        /\ i = Len(history)
        /\ call.pc = "threw" /\ call.result = "RateLimitExceeded"
        /\ call.settledAt = history[i].doneAt /\ now = history[i].doneAt
        /\ currentDelayMs = history[i].delayAt

\* the hint above the ceiling came on the third attempt, after a handled 429
C10_Witness ==
  /\ Len(history) = 3 /\ RateLimited(1) /\ WithinCeiling(1)
  /\ RateLimited(3) /\ ~WithinCeiling(3)
  /\ call.pc = "threw"

(* --------------------------- followArtistsBulk -------------------------- *)
CHUNK_SIZE_FOLLOW == 20

\* longest list of artist IDs given to followArtistsBulk
MaxFollowList == 41

\* array.slice(i, i + size), i counted from 0
Slice(array, i, size) == SubSeq(array, i + 1, Min(i + size, Len(array)))

\* Map.set / Map.delete on a cache kept as a function of its keys
MapSet(map, key, value) == (key :> value) @@ map
MapHas(map, key) == key \in DOMAIN map

\* mutant: the chunk is one ID short of the step of the loop
FollowChunk_Short(artistIds, i) == Slice(artistIds, i, CHUNK_SIZE_FOLLOW - 1)
\* line 694: the chunk the loop works on
FollowChunk(artistIds, i) == Slice(artistIds, i, CHUNK_SIZE_FOLLOW)

\* line 716: a further chunk follows this one
FollowHasMore(artistIds, i) == i + CHUNK_SIZE_FOLLOW < Len(artistIds)

\* lines 721-728: the follow-status entries of the followed IDs are set to
\* followed, and the followed-artist listings are dropped
MarkFollowed(cache, ids, timestamp) ==
  [k \in DOMAIN cache \cup {ids[j] : j \in DOMAIN ids} |->
     IF \E j \in DOMAIN ids : ids[j] = k
     THEN [isFollowed |-> TRUE, timestamp |-> timestamp]
     ELSE cache[k]]

\* mutant: the listings kept under a limit survive the follow
FollowReturns_KeepsFirstN(b) ==
  /\ bulk' = [b EXCEPT !.pc = "returned"]
  /\ IF b.succeededIds # <<>>
     THEN /\ followStatusCache' = MarkFollowed(followStatusCache, b.succeededIds, now')
          /\ followedArtistsCache' = NoEntry
          /\ UNCHANGED followedArtistsCacheByLimit
     ELSE UNCHANGED <<followStatusCache, followedArtistsCache,
                      followedArtistsCacheByLimit>>

\* lines 721-735, from the end of the loop to the return
FollowReturns(b) ==
  /\ bulk' = [b EXCEPT !.pc = "returned"]
  /\ IF b.succeededIds # <<>>
     THEN /\ followStatusCache' = MarkFollowed(followStatusCache, b.succeededIds, now')
          /\ followedArtistsCache' = NoEntry
          /\ followedArtistsCacheByLimit' = <<>>
     ELSE UNCHANGED <<followStatusCache, followedArtistsCache,
                      followedArtistsCacheByLimit>>

\* lines 693-708: the loop is entered at offset i and the chunk's PUT is handed
\* to apiCallWithRetry; or the loop is over
FollowLoop(b, i) ==
  IF i < Len(b.artistIds)
  THEN /\ bulk' = [b EXCEPT !.pc = "put", !.i = i,
                            !.calls = Append(@, [ids |-> FollowChunk(b.artistIds, i),
                                                 res |-> "pending", at |-> -1])]
       /\ UNCHANGED <<followStatusCache, followedArtistsCache,
                      followedArtistsCacheByLimit>>
  ELSE FollowReturns([b EXCEPT !.i = i])

\* what followArtistsBulk never touches
analysisVars == <<artistDetailsCache, playlistAnalysisCache, analyses, analysisLog>>

\* followArtistsBulk(artistIds) is called, lines 688-708
FollowStart(artistIds) ==
  /\ bulk.pc = "idle"
  /\ FollowLoop([NoBulk EXCEPT !.artistIds = artistIds], 0)
  /\ UNCHANGED <<now, serverFollowed, analysisVars, coreVars>>

\* the apiCallWithRetry of the chunk settles, lines 709-718: the catalog has
\* recorded the follow when it fulfils
FollowChunkSettles(ok) ==
  /\ bulk.pc = "put"
  /\ LET chunk == FollowChunk(bulk.artistIds, bulk.i)
         noted == [bulk EXCEPT !.calls[Len(bulk.calls)].res =
                                  IF ok THEN "fulfilled" ELSE "rejected",
                               !.calls[Len(bulk.calls)].at = now]
         b == IF ok
              THEN [noted EXCEPT !.followedCount = @ + Len(chunk),
                                 !.succeededIds = @ \o chunk]
              ELSE [noted EXCEPT !.failedArtists = @ \o chunk]
     IN /\ serverFollowed' = IF ok THEN serverFollowed \cup {chunk[k] : k \in DOMAIN chunk}
                                   ELSE serverFollowed
        /\ UNCHANGED <<now, analysisVars, coreVars>>
        /\ IF FollowHasMore(b.artistIds, b.i)
           THEN /\ bulk' = [b EXCEPT !.pc = "delay", !.wake = now + 2000]
                /\ UNCHANGED <<followStatusCache, followedArtistsCache,
                               followedArtistsCacheByLimit>>
           ELSE FollowLoop(b, b.i + CHUNK_SIZE_FOLLOW)

\* the delay of line 717 is over: the loop goes on with the next chunk
FollowDelayElapsed ==
  /\ bulk.pc = "delay"
  /\ now' = Max(now, bulk.wake)
  /\ FollowLoop(bulk, bulk.i + CHUNK_SIZE_FOLLOW)
  /\ UNCHANGED <<serverFollowed, analysisVars, coreVars>>

\* the artist IDs 1..n, as a list
Ids(n) == [k \in 1..n |-> k]

\* followArtistsBulk alone, on lists of every length up to MaxFollowList
NextBulkFollow ==
  \/ \E n \in 0..MaxFollowList : FollowStart(Ids(n))
  \/ \E ok \in BOOLEAN : FollowChunkSettles(ok)
  \/ FollowDelayElapsed

SpecBulkFollow == InitGate /\ [][NextBulkFollow]_vars

(* ----------------------- claims on followArtistsBulk -------------------- *)
\* the least number of chunks of the given size that hold n items
CeilDiv(n, size) == (n + size - 1) \div size

RECURSIVE ConcatFailed(_)
ConcatFailed(calls) ==
  IF calls = <<>> THEN <<>>
  ELSE (IF Head(calls).res = "rejected" THEN Head(calls).ids ELSE <<>>)
       \o ConcatFailed(Tail(calls))

\* C11: followArtistsBulk over N IDs issues exactly ceil(N/20) follow calls,
\* one per consecutive chunk of 20, returns followedCount + failedCount = N,
\* and failedArtists is the concatenation of the chunks that failed
C11_ChunksAndCounts ==
  LET N == Len(bulk.artistIds) IN
  /\ Len(bulk.calls) <= CeilDiv(N, 20)
  /\ \A k \in DOMAIN bulk.calls :
       bulk.calls[k].ids = SubSeq(bulk.artistIds, 20 * (k - 1) + 1, Min(20 * k, N))
  /\ bulk.pc = "returned" =>
       /\ Len(bulk.calls) = CeilDiv(N, 20)
       /\ bulk.followedCount + Len(bulk.failedArtists) = N
       /\ bulk.failedArtists = ConcatFailed(bulk.calls)

\* a list of more than two chunks was handled, some chunks failing, some not
C11_Witness ==
  /\ bulk.pc = "returned"
  /\ Len(bulk.artistIds) = 41
  /\ bulk.followedCount = 20
  /\ Len(bulk.failedArtists) = 21

(* ----------------------------- analyzePlaylist -------------------------- *)
CACHE_TTL_ARTIST_DETAILS_MS == 21600000
CACHE_TTL_FOLLOW_STATUS_MS == 7200000
CACHE_TTL_PLAYLIST_ANALYSIS_MS == 600000

\* mutant: an entry is still valid when its age is the TTL
isCacheEntryValid_Inclusive(t, timestamp, ttlMs) == t - timestamp <= ttlMs
\* line 167, with t the value of Date.now()
isCacheEntryValid(t, timestamp, ttlMs) == t - timestamp < ttlMs

MapDelete(map, key) == [k \in DOMAIN map \ {key} |-> map[k]]

Range(seq) == {seq[k] : k \in DOMAIN seq}

\* the last index at which the list holds x
LastIndex(list, x) == CHOOSE k \in DOMAIN list :
                        list[k] = x /\ \A j \in DOMAIN list : list[j] = x => j <= k

\* the playlists of the catalog: the artist ID of each track, in track order
\* (0: an artist without ID); playlist 3 fills more than one page and more
\* than one chunk of every lookup
LongPlaylist == 3
LongPlaylistArtists == 101
\* playlist 4 has two pages too: artist 2 is on both, artist 4 comes before
\* artist 3 and as often, artist 1 is on every other track
MixedPlaylist == 4
MixedPlaylistTracks == 102
PlaylistTracks(playlistId) ==
  IF playlistId = 1 THEN <<1, 2, 2>>
  ELSE IF playlistId = 2 THEN <<2>>
  ELSE IF playlistId = MixedPlaylist
  THEN [k \in 1..MixedPlaylistTracks |->
          CASE k = 1 -> 4 [] k = 2 -> 2 [] k = 3 -> 0
            [] k = MixedPlaylistTracks - 1 -> 3 [] k = MixedPlaylistTracks -> 2
            [] OTHER -> 1]
  ELSE [k \in 1..(LongPlaylistArtists + 2) |->
          IF k = 1 THEN 0 ELSE IF k = 2 THEN 1 ELSE k - 2]

\* GET /playlists/{id}/tracks?offset&limit, as the catalog answers it
PlaylistPage(playlistId, offset, limit) ==
  [items |-> Slice(PlaylistTracks(playlistId), offset, limit),
   next |-> offset + limit < Len(PlaylistTracks(playlistId))]

\* an artist as the playlist's tracks carry it (line 471) and as GET /artists
\* returns it
StubArtist(id) == [id |-> id, full |-> FALSE]
FullArtist(id) == [id |-> id, full |-> TRUE]

\* the state an analyzePlaylist call works on: its locals r, the caches and
\* the clock
Frame(a) ==
  [r |-> analyses[a], details |-> artistDetailsCache, status |-> followStatusCache,
   analysis |-> playlistAnalysisCache, log |-> analysisLog, a |-> a, t |-> now]

\* apiCallWithRetry(...) is called: one more request to the catalog
Fetching(f, pc) == [f EXCEPT !.r.pc = pc, !.r.net = @ + 1]

\* mutant: artists of one frequency stay as they were met
Before_FrequencyOnly(x, y) == x.frequency > y.frequency
\* lines 408-413: by frequency, highest first, then by name (the artists'
\* names are in the order of their IDs)
Before(x, y) == x.frequency > y.frequency \/ (x.frequency = y.frequency /\ x.id < y.id)

Sort(list) == SortSeq(list, Before)

\* lines 398-406: the artists of the playlist that are not followed
Unfollowed(r, keys) ==
  LET kept == SelectSeq(keys, LAMBDA id : id \notin r.followedIds)
  IN [k \in DOMAIN kept |-> [id |-> kept[k], full |-> r.artists[kept[k]].full,
                              frequency |-> r.frequency[kept[k]]]]

\* lines 396-425: the response is built, cached and returned
Conclude(f) ==
  LET response == [playlistId |-> f.r.playlistId,
                   unfollowedArtists |-> Sort(Unfollowed(f.r, f.r.keys))]
  IN [f EXCEPT !.r.pc = "returned", !.r.finishedAt = f.t, !.r.response = response,
               !.r.progress = @ \o <<3, 4>>,
               !.analysis = MapSet(@, f.r.playlistId,
                                   [response |-> response, timestamp |-> f.t]),
               !.log = Append(@, f.a)]

\* lines 516-530: the follow status of each ID is taken from the cache when
\* its entry is valid; the other IDs are to be fetched, an expired entry is
\* deleted (the loop does this ID by ID; no ID's outcome depends on another's)
CheckFollowStatusCache(f, artistIds) ==
  LET Valid(artistId) ==
        /\ MapHas(f.status, artistId)
        /\ isCacheEntryValid(f.t, f.status[artistId].timestamp,
                             CACHE_TTL_FOLLOW_STATUS_MS)
      missed == SelectSeq(artistIds, LAMBDA artistId : ~Valid(artistId))
  IN [f EXCEPT !.r.followedIds =
                 @ \cup {id \in Range(artistIds) : Valid(id) /\ f.status[id].isFollowed},
               !.r.idsToFetch = @ \o missed,
               !.status = [id \in DOMAIN f.status \ Range(missed) |-> f.status[id]]]

\* mutant: the chunk is one ID short of the step of the loop
LookupChunk_Short(ids, i) == Slice(ids, i, 49)
\* line 533 / line 490: the chunk of a lookup that starts at i
LookupChunk(ids, i) == Slice(ids, i, 50)

\* lines 532-543 and 557-559: the loop of getFollowStatusForArtists is entered
\* at i, and the chunk's lookup is handed to apiCallWithRetry; or the loop is
\* over and analyzePlaylist concludes
ContainsLoop(f, i) ==
  IF i < Len(f.r.idsToFetch)
  THEN Fetching([f EXCEPT !.r.i = i, !.r.answered = FALSE,
                          !.r.chunks = Append(@, [kind |-> "contains",
                                                  ids |-> LookupChunk(f.r.idsToFetch, i)])],
                "contains")
  ELSE Conclude(f)

\* line 394 and lines 512-530: getFollowStatusForArtists(Object.keys(playlistArtists))
getFollowStatusForArtists(f) == ContainsLoop(CheckFollowStatusCache(f, f.r.keys), 0)

\* lines 487-495 and 507-509: the loop over the IDs to hydrate is entered at
\* i; after it getPlaylistArtistData returns
HydrateLoop(f, i) ==
  IF i < Len(f.r.toHydrate)
  THEN Fetching([f EXCEPT !.r.i = i,
                          !.r.chunks = Append(@, [kind |-> "artists",
                                                  ids |-> LookupChunk(f.r.toHydrate, i)])],
                "hydrate")
  ELSE getFollowStatusForArtists(f)

\* lines 448-478: the items of a page are visited in their order. An artist
\* counts once per item; an artist met for the first time in this call is
\* registered, from the details cache when its entry is valid, otherwise as
\* the track carries it, and then its expired entry is deleted and its ID is
\* put on the list to hydrate
VisitItems(f, items) ==
  LET Count(id) == Cardinality({k \in DOMAIN items : items[k] = id})
      IsNew(k) == /\ items[k] # 0
                  /\ ~MapHas(f.r.artists, items[k])
                  /\ \A j \in 1..(k - 1) : items[j] # items[k]
      firsts == SelectSeq([k \in DOMAIN items |-> k], IsNew)
      newIds == [n \in DOMAIN firsts |-> items[firsts[n]]]
      Valid(id) == /\ MapHas(f.details, id)
                   /\ isCacheEntryValid(f.t, f.details[id].timestamp,
                                        CACHE_TTL_ARTIST_DETAILS_MS)
      stubs == SelectSeq(newIds, LAMBDA id : ~Valid(id))
  IN [f EXCEPT
        !.r.visited = @ \o items,
        !.r.frequency = [id \in DOMAIN @ \cup (Range(items) \ {0}) |->
                           (IF MapHas(@, id) THEN @[id] ELSE 0) + Count(id)],
        !.r.artists = [id \in DOMAIN @ \cup Range(newIds) |->
                         IF MapHas(@, id) THEN @[id]
                         ELSE IF Valid(id) THEN f.details[id].artist
                         ELSE StubArtist(id)],
        !.r.keys = @ \o newIds,
        !.r.toHydrate = @ \o stubs,
        !.details = [id \in DOMAIN @ \ Range(stubs) |-> @[id]]]

\* lines 437-446: the page at the offset is requested
RequestPage(f, offset) ==
  Fetching([f EXCEPT !.r.offset = offset, !.r.requested = Append(@, offset)], "tracks")

\* lines 497-505: the artists of a GET /artists response replace the stubs and
\* are cached
Enrich(f, fullArtists) ==
  LET known == SelectSeq(fullArtists, LAMBDA fullArtist : MapHas(f.r.artists, fullArtist.id))
      ids == {known[k].id : k \in DOMAIN known}
      Latest(id) == known[CHOOSE k \in DOMAIN known :
                            /\ known[k].id = id
                            /\ \A j \in DOMAIN known : known[j].id = id => j <= k]
  IN [f EXCEPT
        !.r.artists = [id \in DOMAIN @ |-> IF id \in ids THEN Latest(id) ELSE @[id]],
        !.details = [id \in DOMAIN @ \cup ids |->
                       IF id \in ids THEN [artist |-> Latest(id), timestamp |-> f.t]
                       ELSE @[id]]]

\* lines 546-556: the statuses of a contains response are cached, statuses[index]
\* for chunk[index]
NoteStatuses(f, chunk, statuses) ==
  LET noted == SubSeq(chunk, 1, Min(Len(chunk), Len(statuses)))
  IN [f EXCEPT
        !.status = [id \in DOMAIN @ \cup Range(noted) |->
                      IF id \in Range(noted)
                      THEN [isFollowed |-> statuses[LastIndex(noted, id)],
                            timestamp |-> f.t]
                      ELSE @[id]],
        !.r.followedIds = @ \cup {noted[k] : k \in {j \in DOMAIN noted : statuses[j]}}]

\* the call and the caches take the values the handler has left
Leave(f) ==
  /\ analyses' = [analyses EXCEPT ![f.a] = f.r]
  /\ artistDetailsCache' = f.details
  /\ followStatusCache' = f.status
  /\ playlistAnalysisCache' = f.analysis
  /\ analysisLog' = f.log
  /\ UNCHANGED <<now, serverFollowed, followedArtistsCache,
                 followedArtistsCacheByLimit, bulk, coreVars>>

\* the call of the log whose response is the latest analysis of the playlist
RECURSIVE LatestAnalysis(_, _)
LatestAnalysis(log, playlistId) ==
  IF log = <<>> THEN 0
  ELSE IF analyses[log[Len(log)]].playlistId = playlistId THEN log[Len(log)]
  ELSE LatestAnalysis(SubSeq(log, 1, Len(log) - 1), playlistId)

\* the IDs followArtistsBulk has reported to its caller as followed
Reported == IF bulk.pc = "returned" THEN Range(bulk.succeededIds) ELSE {}

\* analyzePlaylist(playlistId) is called, lines 369-386 with
\* getCachedPlaylistAnalysis, lines 220-241
AnalysisStarted(a, playlistId) ==
  LET f == [Frame(a) EXCEPT !.r.playlistId = playlistId, !.r.startedAt = now,
                            !.r.prev = LatestAnalysis(analysisLog, playlistId),
                            !.r.reported = Reported]
      cached == MapHas(f.analysis, playlistId)
      valid == cached /\ isCacheEntryValid(now, f.analysis[playlistId].timestamp,
                                           CACHE_TTL_PLAYLIST_ANALYSIS_MS)
  IN IF valid
     THEN [f EXCEPT !.r.pc = "returned", !.r.finishedAt = now,
                    !.r.response = f.analysis[playlistId].response,
                    !.r.progress = <<4>>]
     ELSE Fetching([f EXCEPT !.analysis = MapDelete(@, playlistId),
                             !.r.progress = <<0>>], "info")

AnalyzeStart(a, playlistId) ==
  /\ analyses[a].pc = "idle"
  /\ \A b \in 1..(a - 1) : analyses[b].pc # "idle"
  /\ Leave(AnalysisStarted(a, playlistId))

\* an apiCallWithRetry of the call throws: analyzePlaylist fails
AnalyzeFails(a) ==
  /\ analyses[a].pc \in {"info", "tracks", "hydrate", "contains"}
  /\ Leave([Frame(a) EXCEPT !.r.pc = "failed"])

\* the playlist's name and owner have arrived, lines 388-393 and 431-446
AnalyzeInfoArrives(a) ==
  /\ analyses[a].pc = "info"
  /\ Leave(RequestPage([Frame(a) EXCEPT !.r.progress = Append(@, 1)], 0))

\* a page of the playlist's tracks has arrived, lines 448-485
AnalyzePageArrives(a) ==
  /\ analyses[a].pc = "tracks"
  /\ LET r == analyses[a]
         page == PlaylistPage(r.playlistId, r.offset, 100)
         f == VisitItems(Frame(a), page.items)
     IN Leave(IF page.next THEN RequestPage(f, r.offset + 100) ELSE HydrateLoop(f, 0))

\* the artists of a chunk have arrived, lines 497-506
AnalyzeArtistsArrive(a) ==
  /\ analyses[a].pc = "hydrate"
  /\ LET r == analyses[a]
         batch == LookupChunk(r.toHydrate, r.i)
         f == Enrich(Frame(a), [k \in DOMAIN batch |-> FullArtist(batch[k])])
     IN Leave(HydrateLoop(f, r.i + 50))

\* the catalog works out the answer to GET /me/following/contains
CatalogAnswersContains(a) ==
  /\ analyses[a].pc = "contains"
  /\ ~analyses[a].answered
  /\ LET chunk == LookupChunk(analyses[a].idsToFetch, analyses[a].i) IN
     analyses' = [analyses EXCEPT ![a].answered = TRUE,
                    ![a].answer = [k \in DOMAIN chunk |-> chunk[k] \in serverFollowed]]
  /\ UNCHANGED <<now, serverFollowed, followStatusCache, followedArtistsCache,
                 followedArtistsCacheByLimit, bulk, artistDetailsCache,
                 playlistAnalysisCache, analysisLog, coreVars>>

\* the statuses of a chunk have arrived, lines 545-557
AnalyzeStatusesArrive(a) ==
  /\ analyses[a].pc = "contains"
  /\ analyses[a].answered
  /\ LET r == analyses[a]
         f == NoteStatuses(Frame(a), LookupChunk(r.idsToFetch, r.i), r.answer)
     IN Leave(ContainsLoop(f, r.i + 50))

\* time passes
FacadeTimes == {600000, 7200000}
Elapse(t) ==
  /\ t > now
  /\ now' = t
  /\ UNCHANGED <<coreVars, facadeVars>>

\* the lists followArtistsBulk is given here: a single artist, or two chunks
FollowLists == {<<1>>, <<2>>, Ids(21)}

\* analyzePlaylist calls on short playlists and followArtistsBulk, interleaved
NextFollowStatus ==
  \/ \E a \in Analyses, playlistId \in {1, 2} : AnalyzeStart(a, playlistId)
  \/ \E a \in Analyses : AnalyzeInfoArrives(a)
  \/ \E a \in Analyses : AnalyzePageArrives(a)
  \/ \E a \in Analyses : CatalogAnswersContains(a)
  \/ \E a \in Analyses : AnalyzeStatusesArrive(a)
  \/ \E a \in Analyses : AnalyzeFails(a)
  \/ \E artistIds \in FollowLists : FollowStart(artistIds)
  \/ \E ok \in BOOLEAN : FollowChunkSettles(ok)
  \/ FollowDelayElapsed
  \/ \E t \in FacadeTimes : Elapse(t)

\* the service after earlier calls have left the details of the playlists'
\* artists in the cache
InitFollowStatus ==
  /\ now = 0 /\ requestTimestamps = <<>> /\ admitLog = <<>>
  /\ sleepers = EmptyBag /\ arrived = 0
  /\ tokens = [access_token |-> InitialToken, refresh_token |-> TRUE]
  /\ tokenRefreshPromise = Null
  /\ defaultAuthorization = InitialToken
  /\ stored = tokens
  /\ refreshes = <<>>
  /\ req = [p \in Procs |-> NewRequest]
  /\ apiSends = 0
  /\ anyResponse = FALSE
  /\ currentDelayMs = Ms(DEFAULT_DELAY_MS) /\ call = NoCall /\ history = <<>>
  /\ random = 0
  /\ serverFollowed = {}
  /\ followStatusCache = <<>>
  /\ followedArtistsCache = NoEntry
  /\ followedArtistsCacheByLimit = <<>>
  /\ bulk = NoBulk
  /\ artistDetailsCache = [id \in {1, 2} |-> [artist |-> FullArtist(id), timestamp |-> 0]]
  /\ playlistAnalysisCache = <<>>
  /\ analyses = [a \in Analyses |-> NoAnalysis]
  /\ analysisLog = <<>>
  /\ InitOthers

SpecFollowStatus == InitFollowStatus /\ [][NextFollowStatus]_vars

(* ------------------- claims on follow status and analysis --------------- *)
\* a read of the follow-status cache for the ID yields "not followed" now
ReadsNotFollowed(id) ==
  /\ MapHas(followStatusCache, id)
  /\ isCacheEntryValid(now, followStatusCache[id].timestamp, CACHE_TTL_FOLLOW_STATUS_MS)
  /\ ~followStatusCache[id].isFollowed

\* C12: once the remote follow of an ID has succeeded inside followArtistsBulk,
\* no read of the follow-status cache for it yields "not followed" before the
\* TTL has passed, whatever lookups run or were in flight at that time
C12_FollowedNeverReadsUnfollowed ==
  \A k \in DOMAIN bulk.calls :
    (bulk.calls[k].res = "fulfilled"
       /\ now - bulk.calls[k].at < CACHE_TTL_FOLLOW_STATUS_MS)
    => \A id \in Range(bulk.calls[k].ids) : ~ReadsNotFollowed(id)

\* C13: an analyzePlaylist call that starts after followArtistsBulk has
\* reported an artist as followed returns an unfollowedArtists list without
\* that artist, for a playlist analysed before the follow as for any other
C13_ReportedNeverUnfollowed ==
  \A a \in Analyses :
    analyses[a].pc = "returned" =>
      \A k \in DOMAIN analyses[a].response.unfollowedArtists :
        analyses[a].response.unfollowedArtists[k].id \notin analyses[a].reported

\* C14: an analyzePlaylist call made less than CACHE_TTL_PLAYLIST_ANALYSIS_MS
\* after the latest successful analysis of the same playlist returns that
\* analysis' result and issues no network call; one made at or after the TTL
\* issues network calls again
C14_SecondAnalysisFromCache ==
  \A a \in Analyses :
    LET second == analyses[a] IN
    (second.pc # "idle" /\ second.prev # 0) =>
      LET first == analyses[second.prev] IN
      IF second.startedAt - first.finishedAt < 600000
      THEN /\ second.pc = "returned"
           /\ second.net = 0
           /\ second.response = first.response
      ELSE second.net > 0

\* a second analysis, some time after the first one and within the TTL, was
\* answered from the cache with a list that is not empty
C14_Witness ==
  \E a \in Analyses :
    /\ analyses[a].pc = "returned"
    /\ analyses[a].prev # 0
    /\ analyses[a].net = 0
    /\ analyses[a].startedAt > analyses[analyses[a].prev].finishedAt
    /\ Len(analyses[a].response.unfollowedArtists) = 2

(* ------------------------- lookups in chunks of 50 ---------------------- *)
\* how many artists of the long playlist earlier calls have left in a cache
CachedCounts == {0, 1, 51, 100, 101}

\* the time of the lookups, late enough for cache entries to have expired
LookupTime == CACHE_TTL_ARTIST_DETAILS_MS

\* the artists the user follows when the long playlist is analysed
FollowedThen == {id \in 1..LongPlaylistArtists : id % 3 = 0}

\* a cache that holds valid entries for the IDs 1..count and an entry that
\* has just expired for the next ID
AgedIds(count) == 1..Min(count + 1, LongPlaylistArtists)
AgedTimestamp(id, count, ttlMs) ==
  IF id <= count THEN LookupTime - ttlMs + 1 ELSE LookupTime - ttlMs

DetailsEntry(id, timestamp) == [artist |-> FullArtist(id), timestamp |-> timestamp]
StatusEntry(id, timestamp) == [isFollowed |-> id \in FollowedThen, timestamp |-> timestamp]

InitLookups ==
  /\ now = LookupTime /\ requestTimestamps = <<>> /\ admitLog = <<>>
  /\ sleepers = EmptyBag /\ arrived = 0
  /\ tokens = [access_token |-> InitialToken, refresh_token |-> TRUE]
  /\ tokenRefreshPromise = Null
  /\ defaultAuthorization = InitialToken
  /\ stored = tokens
  /\ refreshes = <<>>
  /\ req = [p \in Procs |-> NewRequest]
  /\ apiSends = 0
  /\ anyResponse = FALSE
  /\ currentDelayMs = Ms(DEFAULT_DELAY_MS) /\ call = NoCall /\ history = <<>>
  /\ random = 0
  /\ serverFollowed = FollowedThen
  /\ \E count \in CachedCounts :
       followStatusCache =
         [id \in AgedIds(count) |->
            StatusEntry(id, AgedTimestamp(id, count, CACHE_TTL_FOLLOW_STATUS_MS))]
  /\ followedArtistsCache = NoEntry
  /\ followedArtistsCacheByLimit = <<>>
  /\ bulk = NoBulk
  /\ \E count \in CachedCounts :
       artistDetailsCache =
         [id \in AgedIds(count) |->
            DetailsEntry(id, AgedTimestamp(id, count, CACHE_TTL_ARTIST_DETAILS_MS))]
  /\ playlistAnalysisCache = <<>>
  /\ analyses = [a \in Analyses |-> NoAnalysis]
  /\ analysisLog = <<>>
  /\ InitOthers

\* analyzePlaylist calls on the long playlist
NextLookups ==
  \/ \E a \in Analyses : AnalyzeStart(a, LongPlaylist)
  \/ \E a \in Analyses : AnalyzeInfoArrives(a)
  \/ \E a \in Analyses : AnalyzePageArrives(a)
  \/ \E a \in Analyses : AnalyzeArtistsArrive(a)
  \/ \E a \in Analyses : CatalogAnswersContains(a)
  \/ \E a \in Analyses : AnalyzeStatusesArrive(a)
  \/ \E a \in Analyses : AnalyzeFails(a)

SpecLookups == InitLookups /\ [][NextLookups]_vars

(* ------------------------ claims on chunked lookups --------------------- *)
\* the chunks of the kind a call has issued, in order
RECURSIVE ChunksOf(_, _)
ChunksOf(chunks, kind) ==
  IF chunks = <<>> THEN <<>>
  ELSE (IF Head(chunks).kind = kind THEN <<Head(chunks).ids>> ELSE <<>>)
       \o ChunksOf(Tail(chunks), kind)

\* the chunks are the consecutive chunks of 50 of the list, the first ones
\* of them while the lookup is under way and all of them once it is over
ConsecutiveChunks(issued, ids, over) ==
  /\ Len(issued) <= CeilDiv(Len(ids), 50)
  /\ over => Len(issued) = CeilDiv(Len(ids), 50)
  /\ \A k \in DOMAIN issued :
       issued[k] = SubSeq(ids, 50 * (k - 1) + 1, Min(50 * k, Len(ids)))

\* the entry of the ID was in the cache, and valid, before the calls began
ValidBefore(cache, id, ttlMs) ==
  /\ MapHas(cache, id)
  /\ cache[id].timestamp < LookupTime
  /\ isCacheEntryValid(LookupTime, cache[id].timestamp, ttlMs)

\* C16: the IDs that need a remote lookup are looked up in exactly
\* ceil(len/50) calls, on consecutive chunks of 50; the merged result holds one
\* entry per distinct ID of the responses; an ID with a valid cache entry is in
\* no lookup
C16_ChunkedLookups ==
  \A a \in Analyses :
    LET r == analyses[a]
        hydrated == ChunksOf(r.chunks, "artists")
        checked == ChunksOf(r.chunks, "contains")
    IN r.pc # "failed" =>
       /\ ConsecutiveChunks(hydrated, r.toHydrate, r.pc \in {"contains", "returned"})
       /\ ConsecutiveChunks(checked, r.idsToFetch, r.pc = "returned")
       /\ \A k \in DOMAIN hydrated : \A id \in Range(hydrated[k]) :
            ~ValidBefore(artistDetailsCache, id, CACHE_TTL_ARTIST_DETAILS_MS)
       /\ \A k \in DOMAIN checked : \A id \in Range(checked[k]) :
            ~ValidBefore(followStatusCache, id, CACHE_TTL_FOLLOW_STATUS_MS)
       /\ (r.pc = "returned" /\ r.net > 0) =>
            /\ Len(r.keys) = Cardinality(Range(r.keys))
            /\ DOMAIN r.artists = Range(r.keys)
            /\ \A id \in Range(r.toHydrate) : r.artists[id] = FullArtist(id)
            /\ \A id \in Range(r.idsToFetch) :
                 /\ MapHas(followStatusCache, id)
                 /\ followStatusCache[id].isFollowed = (id \in serverFollowed)
            /\ r.followedIds = Range(r.keys) \cap serverFollowed

\* a call looked up the artists in three chunks and the follow status in two,
\* some IDs being served by the caches
C16_Witness ==
  \E a \in Analyses :
    /\ analyses[a].pc = "returned"
    /\ Len(ChunksOf(analyses[a].chunks, "artists")) = 3
    /\ Len(ChunksOf(analyses[a].chunks, "contains")) = 2
    /\ Len(analyses[a].idsToFetch) = 100

\* ---------------------------------------------------------------------------
\* The objects of the cached values: cloneArtist and the copies the caches
\* make on put and on get.  An object is a cell of the heap: its own primitive
\* fields (prim) and its references to other objects (refs, 0 for undefined).
\* An artist refers to its images array, its external_urls object and its
\* genres array, in this order; an analysis refers to its unfollowedArtists
\* array.
\* ---------------------------------------------------------------------------

MaxHeld == 4
MaxMutations == 1

\* the value of the primitive fields as the catalog sends them, and after a
\* caller has written to them
Sent == 0
Written == 1

ArtistShapes == [images : BOOLEAN, external_urls : BOOLEAN, genres : BOOLEAN]

\* a new object on the heap
Alloc(h, cell) == [heap |-> Append(h, cell), ref |-> Len(h) + 1]

Cell(kind, refs) == [kind |-> kind, prim |-> Sent, refs |-> refs]

\* { ...object }: a new object with the same fields, references included
Spread(h, ref) == Alloc(h, h[ref])

\* array.map((x) => ({ ...x })) over the elements of an array
RECURSIVE SpreadEach(_, _)
SpreadEach(h, refs) ==
  IF refs = <<>> THEN [heap |-> h, refs |-> <<>>]
  ELSE LET first == Spread(h, Head(refs))
           rest == SpreadEach(first.heap, Tail(refs))
       IN [heap |-> rest.heap, refs |-> <<first.ref>> \o rest.refs]

\* cloneArtist(artist): the spread copies every field; images becomes a new
\* array of new image objects, external_urls a new object; every other field
\* keeps the value the spread gave it
cloneArtist(h, ref) ==
  LET artist == h[ref]
      images == IF artist.refs[1] = 0 THEN [heap |-> h, ref |-> 0]
                ELSE LET each == SpreadEach(h, h[artist.refs[1]].refs)
                     IN Alloc(each.heap, Cell("array", each.refs))
      external_urls == IF artist.refs[2] = 0 THEN [heap |-> images.heap, ref |-> 0]
                       ELSE Spread(images.heap, artist.refs[2])
  IN Alloc(external_urls.heap,
           [artist EXCEPT !.refs = <<images.ref, external_urls.ref, artist.refs[3]>>])

\* artists.map((artist) => copy of artist) with the copy of cloneArtist
RECURSIVE CloneEach(_, _)
CloneEach(h, refs) ==
  IF refs = <<>> THEN [heap |-> h, refs |-> <<>>]
  ELSE LET first == cloneArtist(h, Head(refs))
           rest == CloneEach(first.heap, Tail(refs))
       IN [heap |-> rest.heap, refs |-> <<first.ref>> \o rest.refs]

\* { ...response, unfollowedArtists: response.unfollowedArtists.map(copy) },
\* the copy setPlaylistAnalysisCache stores and getCachedPlaylistAnalysis returns
CopyAnalysis(h, ref) ==
  LET each == CloneEach(h, h[h[ref].refs[1]].refs)
      unfollowedArtists == Alloc(each.heap, Cell("array", each.refs))
  IN Alloc(unfollowedArtists.heap, [h[ref] EXCEPT !.refs = <<unfollowedArtists.ref>>])

\* an artist as the catalog's response holds it
CatalogArtist(h, shape) ==
  LET image == IF shape.images THEN Alloc(h, Cell("image", <<>>)) ELSE [heap |-> h, ref |-> 0]
      images == IF shape.images THEN Alloc(image.heap, Cell("array", <<image.ref>>))
                ELSE image
      external_urls == IF shape.external_urls THEN Alloc(images.heap, Cell("urls", <<>>))
                       ELSE [heap |-> images.heap, ref |-> 0]
      genres == IF shape.genres THEN Alloc(external_urls.heap, Cell("array", <<>>))
                ELSE [heap |-> external_urls.heap, ref |-> 0]
  IN Alloc(genres.heap, Cell("artist", <<images.ref, external_urls.ref, genres.ref>>))

\* what an object is worth to a reader: its fields, and those of the objects
\* it refers to
RECURSIVE Value(_, _)
Value(h, ref) ==
  IF ref = 0 THEN <<>>
  ELSE [prim |-> h[ref].prim,
        parts |-> [i \in 1..Len(h[ref].refs) |-> Value(h, h[ref].refs[i])]]

\* the objects a holder of the given references can get at
RECURSIVE Reach(_, _)
Reach(h, refs) ==
  LET more == refs \cup {h[r].refs[i] : <<r, i>> \in
                           {<<r, i>> \in refs \X (1..3) : i <= Len(h[r].refs)}}
      next == more \ {0}
  IN IF next = refs THEN refs ELSE Reach(h, next)

CacheHas(key) == key \in DOMAIN entries
CachePut(key, h, ref) == MapSet(entries, key, [ref |-> ref, put |-> Value(h, ref)])

\* getPlaylistArtistData hydrating one artist: the clone of the catalog's
\* artist stays with the caller, setArtistDetailsCache stores a clone of it
HydrateArtist(shape) ==
  /\ ~CacheHas("artist")
  /\ LET fullArtist == CatalogArtist(heap, shape)
         enriched == cloneArtist(fullArtist.heap, fullArtist.ref)
         entry == cloneArtist(enriched.heap, enriched.ref)
     IN /\ Cardinality(held) < MaxHeld
        /\ heap' = entry.heap
        /\ held' = held \cup {enriched.ref}
        /\ entries' = CachePut("artist", entry.heap, entry.ref)
  /\ UNCHANGED <<mutations, authVars, gateVars, retryVars, statusVars, scanVars, albums, hubVars>>

\* getCachedArtistDetails on a hit
GetCachedArtist ==
  /\ CacheHas("artist")
  /\ LET copy == cloneArtist(heap, entries["artist"].ref)
     IN /\ Cardinality(held) < MaxHeld
        /\ heap' = copy.heap
        /\ held' = held \cup {copy.ref}
  /\ UNCHANGED <<entries, mutations, authVars, gateVars, retryVars, statusVars,
                 scanVars, albums, hubVars>>

\* analyzePlaylist concluding on an artist it holds: the response lists a
\* spread of the artist; setPlaylistAnalysisCache stores a copy of the response
ConcludeAnalysis(artist) ==
  /\ ~CacheHas("analysis")
  /\ artist \in held /\ heap[artist].kind = "artist"
  /\ LET unfollowed == Spread(heap, artist)
         unfollowedArtists == Alloc(unfollowed.heap, Cell("array", <<unfollowed.ref>>))
         response == Alloc(unfollowedArtists.heap, Cell("analysis", <<unfollowedArtists.ref>>))
         entry == CopyAnalysis(response.heap, response.ref)
     IN /\ Cardinality(held) < MaxHeld
        /\ heap' = entry.heap
        /\ held' = held \cup {response.ref}
        /\ entries' = CachePut("analysis", entry.heap, entry.ref)
  /\ UNCHANGED <<mutations, authVars, gateVars, retryVars, statusVars, scanVars, albums, hubVars>>

\* getCachedPlaylistAnalysis on a hit
GetCachedAnalysis ==
  /\ CacheHas("analysis")
  /\ LET copy == CopyAnalysis(heap, entries["analysis"].ref)
     IN /\ Cardinality(held) < MaxHeld
        /\ heap' = copy.heap
        /\ held' = held \cup {copy.ref}
  /\ UNCHANGED <<entries, mutations, authVars, gateVars, retryVars, statusVars,
                 scanVars, albums, hubVars>>

\* a caller writes to an object it can get at from what it was handed
CallerWrites(ref) ==
  /\ mutations < MaxMutations
  /\ ref \in Reach(heap, held)
  /\ heap[ref].prim = Sent
  /\ heap' = [heap EXCEPT ![ref].prim = Written]
  /\ mutations' = mutations + 1
  /\ UNCHANGED <<held, entries, authVars, gateVars, retryVars, statusVars,
                 scanVars, albums, hubVars>>

NextObjects ==
  \/ \E shape \in ArtistShapes : HydrateArtist(shape)
  \/ GetCachedArtist
  \/ \E artist \in held : ConcludeAnalysis(artist)
  \/ GetCachedAnalysis
  \/ \E ref \in 1..Len(heap) : CallerWrites(ref)

SpecObjects == InitGate /\ [][NextObjects]_vars

\* C15: whatever a caller writes to the objects it was handed, a get of a
\* cached key returns the value as it was put: the stored entry, which the
\* get copies, is worth what it was worth when the cache stored it.
C15_CachedValueAsPut ==
  \A key \in DOMAIN entries : Value(heap, entries[key].ref) = entries[key].put


\* ---------------------------------------------------------------------------
\* scanRecentReleases: the followed artists are listed page by page, then the
\* releases of each are fetched, five artists at a time.
\* ---------------------------------------------------------------------------

CACHE_TTL_FOLLOWED_ARTISTS_MS == 14400000
DAY_MS == 86400000
FOLLOWED_PAGE_LIMIT == 50
ALBUM_PAGE_LIMIT == 20
SCAN_BATCH_SIZE == 5
MAX_ALBUM_PAGES == 2

\* the day of the scan, counted from the epoch, and the hour of the scan
ScanDay == 20
ScanTimes == {ScanDay * DAY_MS, ScanDay * DAY_MS + 43200000}
DaysBack == {7, 14}

\* the followed artists of the scanned account
ScanFollowed == 6

albumTypes == <<"album", "single">>

Release(id, day, precision) ==
  [id |-> id, release_date |-> day, release_date_precision |-> precision]

\* the catalog: what GET /artists/{id}/albums lists for an artist and a group,
\* newest first.  Artist 1 has 21 albums, among them releases known to the
\* month and to the year only, one of the day of the cutoff of a week and one
\* older; artists 2 and 3 share an album; the others have one album each.
ArtistAlbums(artistId, albumType) ==
  IF artistId = 1 /\ albumType = "album"
  THEN [i \in 1..21 |->
          Release(100 + i,
                  CASE i = 21 -> ScanDay - 10
                    [] i = 20 -> ScanDay - 8
                    [] i = 19 -> ScanDay - 7
                    [] OTHER -> ScanDay - 1,
                  CASE i = 3 -> "month" [] i = 5 -> "year" [] OTHER -> "day")]
  ELSE IF artistId = 1
  THEN <<Release(131, ScanDay - 2, "day"), Release(132, ScanDay - 1, "year")>>
  ELSE IF albumType = "album"
  THEN <<Release(IF artistId = 3 THEN 202 ELSE 200 + artistId,
                 ScanDay - (IF artistId = 3 THEN 2 ELSE artistId), "day")>>
  ELSE <<>>

\* one page of the listing: its items, and whether the server names a next page
AlbumPage(artistId, albumType, offset) ==
  LET all == ArtistAlbums(artistId, albumType)
  IN [items |-> Slice(all, offset, ALBUM_PAGE_LIMIT),
      next |-> offset + ALBUM_PAGE_LIMIT < Len(all)]

\* the followed artists as the server lists them, in the order of their IDs
FollowedListing ==
  SelectSeq(Ids(LongPlaylistArtists), LAMBDA id : id \in serverFollowed)

\* GET /me/following?type=artist&limit=50&after=...: the followed artists
\* after the cursor, in the server's order; the cursor is the last one listed
FollowedPage(after) ==
  LET rest == SelectSeq(FollowedListing, LAMBDA id : id > after)
      items == Slice(rest, 0, FOLLOWED_PAGE_LIMIT)
  IN [items |-> items,
      next |-> Len(rest) > FOLLOWED_PAGE_LIMIT,
      after |-> IF items = <<>> THEN after ELSE items[Len(items)]]

\* parseReleaseDate: the instant a date known to the day begins, or null
NoDate == -1
parseReleaseDate_AnyPrecision(dateStr, precision) ==
  dateStr * DAY_MS
parseReleaseDate(dateStr, precision) ==
  IF precision = "day" THEN dateStr * DAY_MS ELSE NoDate

\* releaseDate && releaseDate >= sinceDate
Recent(album, sinceDate) ==
  LET releaseDate == parseReleaseDate(album.release_date, album.release_date_precision)
  IN releaseDate # NoDate /\ releaseDate >= sinceDate

\* getRecentReleasesForArtist at its first request
NewFetch(artistId) ==
  [artistId |-> artistId, pc |-> "waiting", type |-> 1, page |-> 0, offset |-> 0,
   releases |-> <<>>, requested |-> <<[type |-> 1, offset |-> 0]>>]

\* getRecentReleasesForArtist when a page has arrived: the recent items are
\* kept; the next page of the group is asked for unless the page was the
\* second, its last item is older than the cutoff or the server names no next
\* page; after the last group the call returns
\* mutant: the loop over the pages of a group looks at the last item only
FetchAfterPage_IgnoresNext(f, sinceDate) ==
  LET response == AlbumPage(f.artistId, albumTypes[f.type], f.offset)
      items == response.items
      releases == f.releases \o
                  SelectSeq([i \in 1..Len(items) |-> items[i] @@ [artist |-> f.artistId]],
                            LAMBDA album : Recent(album, sinceDate))
      lastDate == IF items = <<>> THEN NoDate
                  ELSE parseReleaseDate(items[Len(items)].release_date,
                                        items[Len(items)].release_date_precision)
      shouldContinue == ~(lastDate # NoDate /\ lastDate < sinceDate)
  IN IF f.page + 1 < MAX_ALBUM_PAGES /\ shouldContinue
     THEN [f EXCEPT !.releases = releases, !.page = f.page + 1,
                    !.offset = f.offset + ALBUM_PAGE_LIMIT,
                    !.requested = Append(@, [type |-> f.type,
                                             offset |-> f.offset + ALBUM_PAGE_LIMIT])]
     ELSE IF f.type < Len(albumTypes)
     THEN [f EXCEPT !.releases = releases, !.type = f.type + 1, !.page = 0,
                    !.offset = 0,
                    !.requested = Append(@, [type |-> f.type + 1, offset |-> 0])]
     ELSE [f EXCEPT !.releases = releases, !.pc = "fulfilled"]
FetchAfterPage(f, sinceDate) ==
  LET response == AlbumPage(f.artistId, albumTypes[f.type], f.offset)
      items == response.items
      releases == f.releases \o
                  SelectSeq([i \in 1..Len(items) |-> items[i] @@ [artist |-> f.artistId]],
                            LAMBDA album : Recent(album, sinceDate))
      lastDate == IF items = <<>> THEN NoDate
                  ELSE parseReleaseDate(items[Len(items)].release_date,
                                        items[Len(items)].release_date_precision)
      shouldContinue == /\ ~(lastDate # NoDate /\ lastDate < sinceDate)
                        /\ response.next
  IN IF f.page + 1 < MAX_ALBUM_PAGES /\ shouldContinue
     THEN [f EXCEPT !.releases = releases, !.page = f.page + 1,
                    !.offset = f.offset + ALBUM_PAGE_LIMIT,
                    !.requested = Append(@, [type |-> f.type,
                                             offset |-> f.offset + ALBUM_PAGE_LIMIT])]
     ELSE IF f.type < Len(albumTypes)
     THEN [f EXCEPT !.releases = releases, !.type = f.type + 1, !.page = 0,
                    !.offset = 0,
                    !.requested = Append(@, [type |-> f.type + 1, offset |-> 0])]
     ELSE [f EXCEPT !.releases = releases, !.pc = "fulfilled"]

\* the results of the batch that are fulfilled, in the order of the batch
Fulfilled_UntilRejected(batchResults) ==
  SelectSeq(batchResults,
            LAMBDA result : \A k \in 1..Len(batchResults) :
                              batchResults[k].pc = "rejected" =>
                                batchResults[k].artistId > result.artistId)
Fulfilled_LastFirst(batchResults) ==
  LET fulfilled == SelectSeq(batchResults, LAMBDA result : result.pc = "fulfilled")
  IN [k \in 1..Len(fulfilled) |-> fulfilled[Len(fulfilled) + 1 - k]]
Fulfilled(batchResults) ==
  SelectSeq(batchResults, LAMBDA result : result.pc = "fulfilled")

\* for (const release of result.value): a release is pushed unless its album
\* ID has been seen
RECURSIVE Collect(_, _)
Collect(sc, values) ==
  IF values = <<>> THEN sc
  ELSE LET release == Head(values)
       IN Collect(IF release.id \in sc.seenAlbumIds THEN sc
                  ELSE [sc EXCEPT !.seenAlbumIds = @ \cup {release.id},
                                  !.releases = Append(@, release)],
                  Tail(values))

RECURSIVE Flatten(_)
Flatten(results) ==
  IF results = <<>> THEN <<>> ELSE Head(results).releases \o Flatten(Tail(results))

\* releases.sort by release date, newest first
Newer(a, b) == a.release_date * DAY_MS > b.release_date * DAY_MS

\* artistsToCheck.slice(batchStart, batchEnd), batchEnd at most batchSize further
Batch_OneMore(artistsToCheck, batchStart) ==
  Slice(artistsToCheck, batchStart, SCAN_BATCH_SIZE + 1)
Batch(artistsToCheck, batchStart) ==
  Slice(artistsToCheck, batchStart, SCAN_BATCH_SIZE)

\* the loop of scanRecentReleases at its head: the next batch is started, or
\* the releases are sorted and returned
ScanLoop(sc, batchStart) ==
  IF batchStart < Len(sc.artistsToCheck)
  THEN LET batch == Batch(sc.artistsToCheck, batchStart)
           \* lines 765-769: onProgress before the calls of the batch are made
           update == [current |-> batchStart + Len(batch),
                      total |-> Len(sc.artistsToCheck), batch |-> batch]
       IN [scan |-> [sc EXCEPT !.pc = "batch", !.batchStart = batchStart,
                               !.started = @ \o batch,
                               !.progress = Append(@, update)],
           fetches |-> [k \in 1..Len(batch) |-> NewFetch(batch[k])]]
  ELSE [scan |-> [sc EXCEPT !.pc = "done", !.batchStart = batchStart,
                            !.releases = SortSeq(sc.releases, Newer),
                            !.totalArtistsChecked = Len(sc.artistsToCheck)],
        fetches |-> <<>>]

\* Promise.allSettled: once every call of the batch has settled the fulfilled
\* results are collected, the rejected ones logged, and the loop goes on
AfterSettle(sc, fs) ==
  IF \E k \in 1..Len(fs) : fs[k].pc = "waiting"
  THEN [scan |-> sc, fetches |-> fs]
  ELSE LET collected == Collect(sc, Flatten(Fulfilled(fs)))
       IN ScanLoop(collected, sc.batchStart + SCAN_BATCH_SIZE)

\* scanRecentReleases once getFollowedArtists has returned
ScanArtists(sc, artists) ==
  ScanLoop([sc EXCEPT !.artists = artists,
                      !.artistsToCheck = IF sc.maxArtists > 0
                                         THEN Slice(artists, 0, sc.maxArtists)
                                         ELSE artists],
           0)

FollowedEntry(artists, t) == [artists |-> artists, timestamp |-> t]

\* scanRecentReleases(daysBack, maxArtists), maxArtists 0 when not given:
\* getFollowedArtists answers from its caches or asks for the first page
ScanStart(daysBack, maxArtists) ==
  /\ scan.pc = "idle"
  /\ LET sc == [scan EXCEPT !.sinceDate = now - daysBack * DAY_MS,
                            !.maxArtists = maxArtists,
                            !.progress = <<[current |-> 0, total |-> 1,
                                            batch |-> <<>>]>>]
         all == followedArtistsCache
         allValid == /\ all # NoEntry
                     /\ isCacheEntryValid(now, all.timestamp, CACHE_TTL_FOLLOWED_ARTISTS_MS)
         byLimit == IF MapHas(followedArtistsCacheByLimit, maxArtists)
                    THEN followedArtistsCacheByLimit[maxArtists] ELSE NoEntry
         hit == \/ maxArtists = 0 /\ allValid
                \/ maxArtists > 0 /\ allValid /\ Len(all.artists) >= maxArtists
                \/ maxArtists > 0 /\ byLimit # NoEntry
                   /\ isCacheEntryValid(now, byLimit.timestamp,
                                        CACHE_TTL_FOLLOWED_ARTISTS_MS)
         cached == IF maxArtists = 0 THEN all.artists
                   ELSE IF allValid /\ Len(all.artists) >= maxArtists
                   THEN Slice(all.artists, 0, maxArtists)
                   ELSE byLimit.artists
         go == IF hit THEN ScanArtists(sc, cached)
               ELSE [scan |-> [sc EXCEPT !.pc = "following", !.after = 0,
                                         !.requested = <<0>>],
                     fetches |-> <<>>]
     IN scan' = go.scan /\ fetches' = go.fetches
  /\ UNCHANGED <<authVars, gateVars, retryVars, statusVars, objectVars, albums, hubVars>>

\* getFollowedArtists when a page has arrived: its items are pushed; with a
\* limit that is reached the call returns the first limit artists; without a
\* next page it returns all; otherwise it asks for the page after the cursor
FollowedPageArrives ==
  /\ scan.pc = "following"
  /\ LET response == FollowedPage(scan.after)
         artists == scan.artists \o response.items
         sc == [scan EXCEPT !.artists = artists,
                            !.visited = @ \o response.items]
         limit == scan.maxArtists
     IN IF limit > 0 /\ Len(artists) >= limit
        THEN LET go == ScanArtists([sc EXCEPT !.ended = "limit"], Slice(artists, 0, limit))
             IN /\ followedArtistsCacheByLimit' =
                     MapSet(followedArtistsCacheByLimit, limit,
                            FollowedEntry(Slice(artists, 0, limit), now))
                /\ scan' = go.scan /\ fetches' = go.fetches
                /\ UNCHANGED followedArtistsCache
        ELSE IF ~response.next
        THEN LET go == ScanArtists([sc EXCEPT !.ended = "last"], artists)
             IN /\ followedArtistsCache' = FollowedEntry(artists, now)
                /\ scan' = go.scan /\ fetches' = go.fetches
                /\ UNCHANGED followedArtistsCacheByLimit
        ELSE /\ scan' = [sc EXCEPT !.after = response.after,
                                   !.requested = Append(@, response.after)]
             /\ UNCHANGED <<fetches, followedArtistsCache, followedArtistsCacheByLimit>>
  /\ UNCHANGED <<authVars, gateVars, retryVars, serverFollowed, followStatusCache, bulk,
                 artistDetailsCache, playlistAnalysisCache, analyses, analysisLog,
                 objectVars, albums, hubVars>>

\* the request for a page of followed artists fails for good: getFollowedArtists
\* throws, and scanRecentReleases with it
FollowedPageFails ==
  /\ scan.pc = "following"
  /\ scan' = [scan EXCEPT !.pc = "failed"]
  /\ UNCHANGED <<fetches, authVars, gateVars, retryVars, statusVars, objectVars, albums, hubVars>>

\* a page of an artist's releases arrives at the k-th call of the batch
FetchPageArrives(k) ==
  /\ scan.pc = "batch" /\ k \in 1..Len(fetches) /\ fetches[k].pc = "waiting"
  /\ LET f == fetches[k]
         after == FetchAfterPage(f, scan.sinceDate)
         items == AlbumPage(f.artistId, albumTypes[f.type], f.offset).items
         sc == [scan EXCEPT
                  !.seen = @ \cup {items[i] @@ [artist |-> f.artistId] : i \in 1..Len(items)},
                  !.fulfilled = IF after.pc = "fulfilled" THEN Append(@, after) ELSE @]
         go == AfterSettle(sc, [fetches EXCEPT ![k] = after])
     IN scan' = go.scan /\ fetches' = go.fetches
  /\ UNCHANGED <<authVars, gateVars, retryVars, statusVars, objectVars, albums, hubVars>>

\* a request of the k-th call of the batch fails for good: the call rejects
FetchPageFails(k) ==
  /\ scan.pc = "batch" /\ k \in 1..Len(fetches) /\ fetches[k].pc = "waiting"
  /\ LET sc == [scan EXCEPT !.rejected = @ \cup {fetches[k].artistId}]
         go == AfterSettle(sc, [fetches EXCEPT ![k].pc = "rejected"])
     IN scan' = go.scan /\ fetches' = go.fetches
  /\ UNCHANGED <<authVars, gateVars, retryVars, statusVars, objectVars, albums, hubVars>>

MaxArtistsGiven == {0, 2, 6}

NextScan ==
  \/ \E daysBack \in DaysBack, maxArtists \in MaxArtistsGiven : ScanStart(daysBack, maxArtists)
  \/ FollowedPageArrives
  \/ FollowedPageFails
  \/ \E k \in 1..SCAN_BATCH_SIZE : FetchPageArrives(k)
  \/ \E k \in 1..SCAN_BATCH_SIZE : FetchPageFails(k)

InitScan ==
  /\ now \in ScanTimes /\ requestTimestamps = <<>> /\ admitLog = <<>>
  /\ sleepers = EmptyBag /\ arrived = 0
  /\ tokens = [access_token |-> InitialToken, refresh_token |-> TRUE]
  /\ tokenRefreshPromise = Null
  /\ defaultAuthorization = InitialToken
  /\ stored = tokens
  /\ refreshes = <<>>
  /\ req = [p \in Procs |-> NewRequest]
  /\ apiSends = 0
  /\ anyResponse = FALSE
  /\ currentDelayMs = Ms(DEFAULT_DELAY_MS) /\ call = NoCall /\ history = <<>>
  /\ random = 0
  /\ serverFollowed = 1..ScanFollowed
  /\ followStatusCache = <<>>
  /\ followedArtistsCache = NoEntry
  /\ followedArtistsCacheByLimit = <<>>
  /\ bulk = NoBulk
  /\ artistDetailsCache = <<>>
  /\ playlistAnalysisCache = <<>>
  /\ analyses = [a \in Analyses |-> NoAnalysis]
  /\ analysisLog = <<>>
  /\ InitOthers

SpecScan == InitScan /\ [][NextScan]_vars


\* what a finished scan returned, and whose releases it had to return
ReturnedIds == {scan.releases[i].id : i \in 1..Len(scan.releases)}
FulfilledArtists == {scan.fulfilled[i].artistId : i \in 1..Len(scan.fulfilled)}
RecentDay(album) ==
  /\ album.release_date_precision = "day"
  /\ album.release_date * DAY_MS >= scan.sinceDate

C20_ScanSurvivesFetchFailures ==
  /\ scan.rejected # {} => scan.pc # "failed"
  /\ scan.pc = "batch" => \E k \in 1..Len(fetches) : fetches[k].pc = "waiting"
  /\ scan.pc = "done" =>
       /\ Range(scan.artistsToCheck) = FulfilledArtists \cup scan.rejected
       /\ scan.totalArtistsChecked = Len(scan.artistsToCheck)
       /\ ReturnedIds = {release.id : release \in
                           UNION {Range(scan.fulfilled[i].releases) :
                                    i \in 1..Len(scan.fulfilled)}}
       /\ \A i, j \in 1..Len(scan.releases) :
            scan.releases[i].id = scan.releases[j].id => i = j

\* a scan has finished although the fetch for artist 2, of the first batch,
\* failed: artist 1 of the same batch and artist 6 of the second were fetched
\* and their releases are returned
C20_Witness ==
  /\ scan.pc = "done"
  /\ 2 \in scan.rejected
  /\ {1, 6} \subseteq FulfilledArtists
  /\ {101, 206} \subseteq ReturnedIds


\* ---------------------------------------------------------------------------
\* getTracksFromAlbums: for each album its track list is fetched page by page
\* and, for each track of a page, the track's details.
\* ---------------------------------------------------------------------------

TRACK_PAGE_LIMIT == 50
LongAlbum == 2
LongAlbumTracks == 51
\* an album whose tracks fill two pages and one chunk of a playlist
FullAlbum == 8
FullAlbumTracks == 100

\* the catalog: the tracks of an album, in the order of the album
AlbumTracks(albumId) ==
  IF albumId = LongAlbum THEN [n \in 1..LongAlbumTracks |-> 200 + n]
  ELSE IF albumId = FullAlbum THEN [n \in 1..FullAlbumTracks |-> 800 + n]
  ELSE IF albumId = 1 THEN <<11, 12>>
  ELSE <<10 * albumId + 1>>

\* GET /albums/{id}/tracks?offset&limit: items and whether a next page exists
TracksPage(albumId, offset) ==
  LET all == AlbumTracks(albumId)
  IN [items |-> Slice(all, offset, TRACK_PAGE_LIMIT),
      next |-> offset + TRACK_PAGE_LIMIT < Len(all)]

\* GET /tracks/{id}: the track with its album
FullTrack(trackId, albumId) == [id |-> trackId, album |-> albumId]

\* the request for a page of the i-th album's tracks
TracksRequest(al, i, offset) ==
  [al EXCEPT !.pc = "page", !.i = i, !.offset = offset, !.tracks = <<>>, !.k = 0,
             !.requested = Append(@, [album |-> al.albumIds[i], offset |-> offset])]

\* the for loop over the albums at its head: the next album's first page is
\* asked for, or all tracks are returned
AlbumLoop(al, i) ==
  IF i <= Len(al.albumIds) THEN TracksRequest(al, i, 0)
  ELSE [al EXCEPT !.pc = "done", !.i = i]

\* after the tracks of a page: the traversal of the album ends when the page
\* names no next page, otherwise the page after it is asked for
AfterTracks_FirstPageOnly(al) ==
  AlbumLoop([al EXCEPT !.ended = Append(@, al.albumIds[al.i])], al.i + 1)
AfterTracks(al) ==
  IF ~al.next
  THEN AlbumLoop([al EXCEPT !.ended = Append(@, al.albumIds[al.i])], al.i + 1)
  ELSE TracksRequest(al, al.i, al.offset + TRACK_PAGE_LIMIT)

\* the for loop over the tracks of a page at its head: the details of the
\* k-th track are asked for, or the page is finished
TrackLoop(al, k) ==
  IF k <= Len(al.tracks) THEN [al EXCEPT !.pc = "track", !.k = k]
  ELSE AfterTracks(al)

\* getTracksFromAlbums(albumIds)
TracksStart(albumIds) ==
  /\ albums.pc = "idle"
  /\ albums' = AlbumLoop([albums EXCEPT !.albumIds = albumIds], 1)
  /\ UNCHANGED <<authVars, gateVars, retryVars, statusVars, objectVars, scanVars, hubVars>>

\* a page of the album's track list arrives
TracksPageArrives ==
  /\ albums.pc = "page"
  /\ LET response == TracksPage(albums.albumIds[albums.i], albums.offset)
     IN albums' = TrackLoop([albums EXCEPT !.tracks = response.items,
                                           !.next = response.next], 1)
  /\ UNCHANGED <<authVars, gateVars, retryVars, statusVars, objectVars, scanVars, hubVars>>

\* the details of a track arrive: the track is pushed onto allTracks
TrackArrives ==
  /\ albums.pc = "track"
  /\ LET trackId == albums.tracks[albums.k]
         fullTrack == FullTrack(trackId, albums.albumIds[albums.i])
     IN albums' = TrackLoop([albums EXCEPT !.allTracks = Append(@, fullTrack),
                                           !.visited = Append(@, trackId)],
                            albums.k + 1)
  /\ UNCHANGED <<authVars, gateVars, retryVars, statusVars, objectVars, scanVars, hubVars>>

\* a request for the album fails for good: the catch logs the error and the
\* loop goes on with the next album
AlbumRequestFails ==
  /\ albums.pc \in {"page", "track"}
  /\ albums' = AlbumLoop([albums EXCEPT !.failed = @ \cup {albums.albumIds[albums.i]}],
                         albums.i + 1)
  /\ UNCHANGED <<authVars, gateVars, retryVars, statusVars, objectVars, scanVars, hubVars>>

AlbumLists == {<<>>, <<1>>, <<LongAlbum, 1>>, <<1, 3, LongAlbum>>}

NextAlbums ==
  \/ \E albumIds \in AlbumLists : TracksStart(albumIds)
  \/ TracksPageArrives
  \/ TrackArrives
  \/ AlbumRequestFails

SpecAlbums == InitGate /\ [][NextAlbums]_vars

\* C18: getTracksFromAlbums does not fail toward its caller, and what it
\* returns are all tracks of the albums that did not fail and no track of an
\* album that failed.
C18_NoTrackOfFailedAlbum ==
  albums.pc = "done" =>
    /\ \A albumId \in Range(albums.albumIds) \ albums.failed :
         \A trackId \in Range(AlbumTracks(albumId)) :
           \E n \in 1..Len(albums.allTracks) :
             albums.allTracks[n] = [id |-> trackId, album |-> albumId]
    /\ \A n \in 1..Len(albums.allTracks) : albums.allTracks[n].album \notin albums.failed


\* ---------------------------------------------------------------------------
\* The three traversals side by side: the tracks of a playlist of two pages,
\* the followed artists of an account that follows more than one page of
\* them, the tracks of an album of two pages.
\* ---------------------------------------------------------------------------

PagesFollowed == 51
PagesMaxArtists == {0, 6}
PagesAlbumLists == {<<LongAlbum>>, <<1, LongAlbum>>}

InitPages ==
  /\ now = ScanDay * DAY_MS /\ requestTimestamps = <<>> /\ admitLog = <<>>
  /\ sleepers = EmptyBag /\ arrived = 0
  /\ tokens = [access_token |-> InitialToken, refresh_token |-> TRUE]
  /\ tokenRefreshPromise = Null
  /\ defaultAuthorization = InitialToken
  /\ stored = tokens
  /\ refreshes = <<>>
  /\ req = [p \in Procs |-> NewRequest]
  /\ apiSends = 0
  /\ anyResponse = FALSE
  /\ currentDelayMs = Ms(DEFAULT_DELAY_MS) /\ call = NoCall /\ history = <<>>
  /\ random = 0
  /\ serverFollowed = 1..PagesFollowed
  /\ followStatusCache = <<>>
  /\ followedArtistsCache = NoEntry
  /\ followedArtistsCacheByLimit = <<>>
  /\ bulk = NoBulk
  /\ artistDetailsCache = <<>>
  /\ playlistAnalysisCache = <<>>
  /\ analyses = [a \in Analyses |-> NoAnalysis]
  /\ analysisLog = <<>>
  /\ InitOthers

NextPages ==
  \/ AnalyzeStart(1, LongPlaylist)
  \/ AnalyzeInfoArrives(1)
  \/ AnalyzePageArrives(1)
  \/ AnalyzeArtistsArrive(1)
  \/ CatalogAnswersContains(1)
  \/ AnalyzeStatusesArrive(1)
  \/ AnalyzeFails(1)
  \/ \E maxArtists \in PagesMaxArtists : ScanStart(7, maxArtists)
  \/ FollowedPageArrives
  \/ FollowedPageFails
  \/ \E albumIds \in PagesAlbumLists : TracksStart(albumIds)
  \/ TracksPageArrives
  \/ TrackArrives
  \/ AlbumRequestFails

SpecPages == InitPages /\ [][NextPages]_vars

\* the pages the server has of a listing, and the first items of a listing
NumPages(all, size) == Max(1, CeilDiv(Len(all), size))
Prefix(all, n) == SubSeq(all, 1, Min(n, Len(all)))

\* the tracks of a playlist: the offsets requested are those of the server's
\* pages in order, the items visited are the items of the pages received, in
\* the server's order, and the traversal has ended only at the last page
PlaylistTraversal(r) ==
  LET all == PlaylistTracks(r.playlistId)
      received == Len(r.requested) - (IF r.pc = "tracks" THEN 1 ELSE 0)
  IN r.pc \notin {"idle", "failed"} =>
       /\ r.requested = [j \in 1..Len(r.requested) |-> (j - 1) * 100]
       /\ Len(r.requested) <= NumPages(all, 100)
       /\ r.visited = Prefix(all, received * 100)
       /\ (r.pc \notin {"info", "tracks"} /\ r.net > 0) =>
            Len(r.requested) = NumPages(all, 100)

\* the followed artists: the cursors requested are those of the server's
\* pages in order, the artists visited are those of the pages received
FollowedTraversal ==
  LET all == FollowedListing
      received == Len(scan.requested) - (IF scan.pc = "following" THEN 1 ELSE 0)
  IN scan.pc \notin {"idle", "failed"} /\ scan.requested # <<>> =>
       /\ scan.requested = [j \in 1..Len(scan.requested) |->
                              IF j = 1 THEN 0 ELSE all[(j - 1) * FOLLOWED_PAGE_LIMIT]]
       /\ Len(scan.requested) <= NumPages(all, FOLLOWED_PAGE_LIMIT)
       /\ scan.visited = Prefix(all, received * FOLLOWED_PAGE_LIMIT)
       /\ scan.pc # "following" <=> scan.ended # ""

\* the tracks of the albums: for each album the offsets requested are those of
\* the server's pages in order, a page is requested only when the tracks of
\* the pages before it have been visited, the tracks visited are the first of
\* the album in its order, and a traversal that has ended has visited all
AlbumTraversals ==
  \A n \in 1..Len(albums.albumIds) :
    LET albumId == albums.albumIds[n]
        all == AlbumTracks(albumId)
        requested == SelectSeq(albums.requested, LAMBDA request : request.album = albumId)
        visited == SelectSeq(albums.visited, LAMBDA trackId : trackId \in Range(all))
    IN /\ requested = [j \in 1..Len(requested) |->
                         [album |-> albumId, offset |-> (j - 1) * TRACK_PAGE_LIMIT]]
       /\ Len(requested) <= NumPages(all, TRACK_PAGE_LIMIT)
       /\ visited = Prefix(all, Len(visited))
       /\ Len(requested) > 0 => Len(visited) >= (Len(requested) - 1) * TRACK_PAGE_LIMIT
       /\ Len(visited) <= Len(requested) * TRACK_PAGE_LIMIT
       /\ albumId \in Range(albums.ended) =>
            /\ visited = all
            /\ Len(requested) = NumPages(all, TRACK_PAGE_LIMIT)
       /\ (albums.i > n /\ albumId \notin albums.failed) => albumId \in Range(albums.ended)

\* C19 as stated: each traversal requests a page only after the page before
\* it was received, visits the items of the pages in the server's order, each
\* once, and ends exactly when the server reports no next page.
C19_TraversalsDrainPages ==
  /\ PlaylistTraversal(analyses[1])
  /\ FollowedTraversal
  /\ scan.ended # "" =>
       Len(scan.requested) = NumPages(FollowedListing, FOLLOWED_PAGE_LIMIT)
  /\ AlbumTraversals

\* C19, amended: as stated, but the traversal of the followed artists that was
\* given a limit ends as soon as the pages received hold that many artists,
\* whether or not the server reports a next page.
C19_TraversalsDrainPagesOrReachLimit ==
  /\ PlaylistTraversal(analyses[1])
  /\ FollowedTraversal
  /\ scan.ended = "last" =>
       Len(scan.requested) = NumPages(FollowedListing, FOLLOWED_PAGE_LIMIT)
  /\ scan.ended = "limit" =>
       /\ scan.maxArtists > 0
       /\ Len(scan.visited) >= scan.maxArtists
       /\ (Len(scan.requested) - 1) * FOLLOWED_PAGE_LIMIT < scan.maxArtists
  /\ scan.ended \in {"", "last", "limit"}
  /\ AlbumTraversals

\* the three traversals have each gone through two pages and ended
C19_Witness ==
  /\ analyses[1].pc = "returned" /\ analyses[1].requested = <<0, 100>>
  /\ scan.ended = "last" /\ Len(scan.requested) = 2
  /\ Len(scan.visited) = PagesFollowed
  /\ LongAlbum \in Range(albums.ended) /\ albums.pc = "done"


\* the artists of the scan whose fetch has started and has not settled
InFlight == Range(scan.started) \ (FulfilledArtists \cup scan.rejected)

\* C21: the fetch of an artist of a later batch has not started unless the
\* fetch of every artist of the batches before it has settled, each fetch is
\* started once, and at most five are in flight.
C21_BatchesInSequence ==
  /\ Cardinality(InFlight) <= SCAN_BATCH_SIZE
  /\ scan.started = SubSeq(scan.artistsToCheck, 1, Len(scan.started))
  /\ \A i, j \in 1..Len(scan.started) :
       (i - 1) \div SCAN_BATCH_SIZE < (j - 1) \div SCAN_BATCH_SIZE =>
         scan.started[i] \notin InFlight

\* the second batch is in flight after the five fetches of the first settled
C21_Witness ==
  /\ scan.pc = "batch" /\ scan.batchStart = SCAN_BATCH_SIZE
  /\ Len(scan.started) = SCAN_BATCH_SIZE + 1
  /\ InFlight = {scan.started[SCAN_BATCH_SIZE + 1]}


\* where an artist stands among the artists to check, what its fetch
\* returned, and where a release stands in what the fetch returned
PlaceOf(artistId) ==
  CHOOSE n \in 1..Len(scan.artistsToCheck) : scan.artistsToCheck[n] = artistId
ResultOf(artistId) ==
  scan.fulfilled[CHOOSE i \in 1..Len(scan.fulfilled) :
                   scan.fulfilled[i].artistId = artistId].releases
Holds(artistId, id) == \E n \in 1..Len(ResultOf(artistId)) : ResultOf(artistId)[n].id = id
PlaceIn(artistId, id) ==
  CHOOSE n \in 1..Len(ResultOf(artistId)) : ResultOf(artistId)[n].id = id

\* C22: a finished scan returns no release ID twice; a release that several
\* fetched artists share is kept as the first of them in the order of the
\* followed artists returned it; the list is sorted by release date, newest
\* first, and releases of one date stand in the order of the followed artists
\* and of each artist's listing, so that the order in which the fetches
\* completed leaves no trace in the list.
C22_OneListWhateverTheOrder ==
  scan.pc = "done" =>
    LET releases == scan.releases
    IN /\ \A i, j \in 1..Len(releases) : releases[i].id = releases[j].id => i = j
       /\ \A i \in 1..Len(releases) :
            /\ releases[i].artist \in FulfilledArtists
            /\ Holds(releases[i].artist, releases[i].id)
            /\ \A other \in FulfilledArtists :
                 Holds(other, releases[i].id) =>
                   PlaceOf(releases[i].artist) <= PlaceOf(other)
       /\ \A i, j \in 1..Len(releases) :
            i < j =>
              \/ releases[i].release_date > releases[j].release_date
              \/ /\ releases[i].release_date = releases[j].release_date
                 /\ \/ PlaceOf(releases[i].artist) < PlaceOf(releases[j].artist)
                    \/ /\ releases[i].artist = releases[j].artist
                       /\ PlaceIn(releases[i].artist, releases[i].id)
                            < PlaceIn(releases[j].artist, releases[j].id)

\* the fetch of artist 3 completed before the fetch of artist 2; the album
\* they share is returned as artist 2 has it
C22_Witness ==
  /\ scan.pc = "done"
  /\ \E i, j \in 1..Len(scan.fulfilled) :
       i < j /\ scan.fulfilled[i].artistId = 3 /\ scan.fulfilled[j].artistId = 2
  /\ \E n \in 1..Len(scan.releases) :
       scan.releases[n].id = 202 /\ scan.releases[n].artist = 2
  /\ Len(scan.releases) > 2


\* ---------------------------------------------------------------------------
\* extractPlaylistId: the argument of analyzePlaylist is a string, here a
\* sequence of pieces: the word playlist, the alphanumeric characters 1 and 2,
\* the separators / and :, and - for any other character.
\* ---------------------------------------------------------------------------

MaxUrlLen == 4
UrlPieces == {"playlist", "1", "2", "/", ":", "-"}
Urls == UNION {[1..n -> UrlPieces] : n \in 0..MaxUrlLen}

\* [a-zA-Z0-9]: the word playlist is made of such characters
IsAlphanumeric(piece) == piece \in {"playlist", "1", "2"}

\* the end of the longest run of alphanumeric characters that starts at i
RunEnd(url, i) ==
  CHOOSE j \in i..Len(url) :
    /\ \A k \in i..j : IsAlphanumeric(url[k])
    /\ j = Len(url) \/ ~IsAlphanumeric(url[j + 1])

\* /playlist[\/:]([a-zA-Z0-9]+)/ matches at i
PatternAt(url, i) ==
  /\ i + 2 <= Len(url)
  /\ url[i] = "playlist"
  /\ url[i + 1] \in {"/", ":"}
  /\ IsAlphanumeric(url[i + 2])

\* extractPlaylistId(playlistUrl): the group of the leftmost match, else the
\* string itself if /^[a-zA-Z0-9]+$/ accepts it, else the error is thrown
extractPlaylistId_EmptyIsBare(playlistUrl) ==
  IF \E i \in 1..Len(playlistUrl) : PatternAt(playlistUrl, i)
  THEN LET i == CHOOSE i \in 1..Len(playlistUrl) :
                  /\ PatternAt(playlistUrl, i)
                  /\ \A h \in 1..(i - 1) : ~PatternAt(playlistUrl, h)
       IN [ok |-> TRUE, id |-> SubSeq(playlistUrl, i + 2, RunEnd(playlistUrl, i + 2))]
  ELSE IF \A k \in 1..Len(playlistUrl) : IsAlphanumeric(playlistUrl[k])
  THEN [ok |-> TRUE, id |-> playlistUrl]
  ELSE [ok |-> FALSE, id |-> <<>>]
extractPlaylistId(playlistUrl) ==
  IF \E i \in 1..Len(playlistUrl) : PatternAt(playlistUrl, i)
  THEN LET i == CHOOSE i \in 1..Len(playlistUrl) :
                  /\ PatternAt(playlistUrl, i)
                  /\ \A h \in 1..(i - 1) : ~PatternAt(playlistUrl, h)
       IN [ok |-> TRUE, id |-> SubSeq(playlistUrl, i + 2, RunEnd(playlistUrl, i + 2))]
  ELSE IF /\ playlistUrl # <<>>
          /\ \A k \in 1..Len(playlistUrl) : IsAlphanumeric(playlistUrl[k])
  THEN [ok |-> TRUE, id |-> playlistUrl]
  ELSE [ok |-> FALSE, id |-> <<>>]

\* the playlists of the catalog are named 1 and 2; any other ID names none
KnownPlaylists == {1, 2}
NoPlaylist == 0
PlaylistOf(id) ==
  IF id = <<"1">> THEN 1 ELSE IF id = <<"2">> THEN 2 ELSE NoPlaylist

\* analyzePlaylist(playlistUrl): extractPlaylistId throws, or the analysis
\* starts on the ID it returned
AnalyzePlaylist(a, playlistUrl) ==
  /\ analyses[a].pc = "idle"
  /\ \A b \in 1..(a - 1) : analyses[b].pc # "idle"
  /\ LET resolved == extractPlaylistId(playlistUrl)
     IN Leave(IF resolved.ok
              THEN [AnalysisStarted(a, PlaylistOf(resolved.id))
                      EXCEPT !.r.playlistUrl = playlistUrl]
              ELSE [Frame(a) EXCEPT !.r.pc = "invalid", !.r.playlistUrl = playlistUrl])

\* the catalog answers GET /playlists/{id} for the playlists it has
PlaylistInfoArrives(a) ==
  /\ analyses[a].playlistId \in KnownPlaylists
  /\ AnalyzeInfoArrives(a)

\* what a second call is given while the first is under way
LaterUrls == {<<"1">>, <<"-">>, <<"playlist", ":", "2", "-">>, <<>>}

NextResolve ==
  \/ \E playlistUrl \in Urls : AnalyzePlaylist(1, playlistUrl)
  \/ \E playlistUrl \in LaterUrls : AnalyzePlaylist(2, playlistUrl)
  \/ \E a \in Analyses : PlaylistInfoArrives(a)
  \/ \E a \in Analyses : AnalyzePageArrives(a)
  \/ \E a \in Analyses : CatalogAnswersContains(a)
  \/ \E a \in Analyses : AnalyzeStatusesArrive(a)
  \/ \E a \in Analyses : AnalyzeFails(a)

SpecResolve == InitFollowStatus /\ [][NextResolve]_vars

\* a string that holds playlist/<id> or playlist:<id>, or that is a bare
\* alphanumeric ID and not empty
Recognizable(url) ==
  \/ \E i \in 1..Len(url) :
       /\ i + 2 <= Len(url) /\ url[i] = "playlist" /\ url[i + 1] \in {"/", ":"}
       /\ url[i + 2] \in {"playlist", "1", "2"}
  \/ /\ Len(url) > 0
     /\ \A k \in 1..Len(url) : url[k] \in {"playlist", "1", "2"}

\* C23: a call of analyzePlaylist with a string that is not recognizable ends
\* as invalid input, and has sent no request, reported no progress and left
\* every cache as it was.
C23_UnrecognizedInputFailsFirst ==
  [][\A a \in Analyses :
       (/\ analyses[a].pc = "idle" /\ analyses'[a].pc # "idle"
        /\ ~Recognizable(analyses'[a].playlistUrl)) =>
         /\ analyses'[a].pc = "invalid"
         /\ analyses'[a].net = 0 /\ analyses'[a].progress = <<>>
         /\ UNCHANGED <<artistDetailsCache, followStatusCache, playlistAnalysisCache,
                        followedArtistsCache, followedArtistsCacheByLimit,
                        requestTimestamps, apiSends>>]_vars

\* one call was refused as invalid input while another, with a URL, fetches
C23_Witness ==
  /\ analyses[1].pc = "returned" /\ analyses[1].playlistId = 1
  /\ analyses[1].playlistUrl = <<"-", "playlist", "/", "1">>
  /\ analyses[2].pc = "invalid" /\ analyses[2].playlistUrl = <<"-">>
  /\ playlistAnalysisCache # <<>>


(* ------------------------- the caches and their TTLs -------------------- *)
CACHE_TTL_RELATED_ARTISTS_MS == 10800000

\* the kinds of cache whose entries expire, and the TTL of each
CacheKinds == {"details", "status", "followed", "related", "analysis"}
TtlOf(kind) ==
  CASE kind = "details" -> CACHE_TTL_ARTIST_DETAILS_MS
    [] kind = "status" -> CACHE_TTL_FOLLOW_STATUS_MS
    [] kind = "followed" -> CACHE_TTL_FOLLOWED_ARTISTS_MS
    [] kind = "related" -> CACHE_TTL_RELATED_ARTISTS_MS
    [] kind = "analysis" -> CACHE_TTL_PLAYLIST_ANALYSIS_MS

\* entries are written until this time, and looked up at any time
LastPut == 1
\* the times around the expiry of each kind of entry
TtlTimes ==
  {1} \cup UNION {{TtlOf(kind) - 1, TtlOf(kind), TtlOf(kind) + 1} : kind \in CacheKinds}

\* what a lookup found under its key and what it handed to its caller
Hit(timestamp, value) == [hit |-> TRUE, timestamp |-> timestamp, value |-> value]
Looked(kind, eligible, returned) ==
  [kind |-> kind, at |-> now, eligible |-> eligible, returned |-> returned]

\* the entry of a keyed cache under the key, as a set of write timestamps
Stored(cache, key) == IF MapHas(cache, key) THEN {cache[key].timestamp} ELSE {}

\* lines 179-189, 200-210 and 223-240: the entry under the key is handed out
\* when it is valid, and deleted when it is not
Lookup(cache, key, ttlMs) ==
  IF ~MapHas(cache, key) THEN [cache |-> cache, hit |-> FALSE]
  ELSE IF ~isCacheEntryValid(now, cache[key].timestamp, ttlMs)
       THEN [cache |-> MapDelete(cache, key), hit |-> FALSE]
       ELSE [cache |-> cache, hit |-> TRUE]

\* setArtistDetailsCache(artist)
SetArtistDetailsCache(id) ==
  /\ now <= LastPut
  /\ artistDetailsCache' =
       MapSet(artistDetailsCache, id, [artist |-> FullArtist(id), timestamp |-> now])
  /\ UNCHANGED <<now, serverFollowed, followStatusCache, followedArtistsCache,
                 followedArtistsCacheByLimit, bulk, playlistAnalysisCache, analyses,
                 analysisLog, coreVars>>

\* getCachedArtistDetails(artistId)
GetCachedArtistDetails(artistId) ==
  /\ LET got == Lookup(artistDetailsCache, artistId, CACHE_TTL_ARTIST_DETAILS_MS)
         cached == artistDetailsCache[artistId]
     IN /\ artistDetailsCache' = got.cache
        /\ lookup' = Looked("details", Stored(artistDetailsCache, artistId),
                            IF got.hit THEN Hit(cached.timestamp, cached.artist)
                            ELSE Miss)
  /\ UNCHANGED <<authVars, gateVars, retryVars, objectVars, scanVars, albums,
                 relatedArtistsCache, ipcVars, callers, playlistVars, ui>>
  /\ UNCHANGED <<serverFollowed, followStatusCache, followedArtistsCache,
                 followedArtistsCacheByLimit, bulk, playlistAnalysisCache, analyses,
                 analysisLog>>

\* the artists the catalog relates to the seed artist
RelatedTo(artistId) == <<FullArtist(artistId + 1), FullArtist(artistId + 2)>>

\* setRelatedArtistsCache(artistId, artists)
SetRelatedArtistsCache(artistId) ==
  /\ now <= LastPut
  /\ relatedArtistsCache' =
       MapSet(relatedArtistsCache, artistId,
              [artists |-> RelatedTo(artistId), timestamp |-> now])
  /\ UNCHANGED <<authVars, gateVars, retryVars, statusVars, objectVars, scanVars,
                 albums, lookup, ipcVars, callers, playlistVars, ui>>

\* getCachedRelatedArtists(artistId)
GetCachedRelatedArtists(artistId) ==
  /\ LET got == Lookup(relatedArtistsCache, artistId, CACHE_TTL_RELATED_ARTISTS_MS)
         cached == relatedArtistsCache[artistId]
     IN /\ relatedArtistsCache' = got.cache
        /\ lookup' = Looked("related", Stored(relatedArtistsCache, artistId),
                            IF got.hit THEN Hit(cached.timestamp, cached.artists)
                            ELSE Miss)
  /\ UNCHANGED <<authVars, gateVars, retryVars, statusVars, objectVars, scanVars,
                 albums, ipcVars, callers, playlistVars, ui>>

\* setPlaylistAnalysisCache(playlistId, response)
SetPlaylistAnalysisCache(playlistId) ==
  /\ now <= LastPut
  /\ playlistAnalysisCache' =
       MapSet(playlistAnalysisCache, playlistId,
              [response |-> [playlistId |-> playlistId,
                             unfollowedArtists |-> <<FullArtist(1)>>],
               timestamp |-> now])
  /\ UNCHANGED <<now, serverFollowed, followStatusCache, followedArtistsCache,
                 followedArtistsCacheByLimit, bulk, artistDetailsCache, analyses,
                 analysisLog, coreVars>>

\* getCachedPlaylistAnalysis(playlistId)
GetCachedPlaylistAnalysis(playlistId) ==
  /\ LET got == Lookup(playlistAnalysisCache, playlistId,
                       CACHE_TTL_PLAYLIST_ANALYSIS_MS)
         cached == playlistAnalysisCache[playlistId]
     IN /\ playlistAnalysisCache' = got.cache
        /\ lookup' = Looked("analysis", Stored(playlistAnalysisCache, playlistId),
                            IF got.hit THEN Hit(cached.timestamp, cached.response)
                            ELSE Miss)
  /\ UNCHANGED <<authVars, gateVars, retryVars, objectVars, scanVars, albums,
                 relatedArtistsCache, ipcVars, callers, playlistVars, ui>>
  /\ UNCHANGED <<serverFollowed, followStatusCache, followedArtistsCache,
                 followedArtistsCacheByLimit, bulk, artistDetailsCache, analyses,
                 analysisLog>>

\* lines 546-551: the follow status a response carries is written to the cache
SetFollowStatus(artistId, isFollowed) ==
  /\ now <= LastPut
  /\ followStatusCache' =
       MapSet(followStatusCache, artistId,
              [isFollowed |-> isFollowed, timestamp |-> now])
  /\ UNCHANGED <<now, serverFollowed, followedArtistsCache,
                 followedArtistsCacheByLimit, bulk, artistDetailsCache,
                 playlistAnalysisCache, analyses, analysisLog, coreVars>>

\* lines 516-530, for one ID of the list
GetFollowStatus(artistId) ==
  /\ LET cached == followStatusCache[artistId]
         valid == /\ MapHas(followStatusCache, artistId)
                  /\ isCacheEntryValid(now, cached.timestamp,
                                       CACHE_TTL_FOLLOW_STATUS_MS)
     IN /\ followStatusCache' =
             IF valid \/ ~MapHas(followStatusCache, artistId) THEN followStatusCache
             ELSE MapDelete(followStatusCache, artistId)
        /\ lookup' = Looked("status", Stored(followStatusCache, artistId),
                            IF valid THEN Hit(cached.timestamp, cached.isFollowed)
                            ELSE Miss)
  /\ UNCHANGED <<authVars, gateVars, retryVars, objectVars, scanVars, albums,
                 relatedArtistsCache, ipcVars, callers, playlistVars, ui>>
  /\ UNCHANGED <<serverFollowed, followedArtistsCache, followedArtistsCacheByLimit,
                 bulk, artistDetailsCache, playlistAnalysisCache, analyses,
                 analysisLog>>

\* the listings of the followed artists a traversal has ended with
Listings == {Ids(1), Ids(3)}

\* lines 676-679: the whole listing is kept
SetFollowedArtists(artists) ==
  /\ now <= LastPut
  /\ followedArtistsCache' = FollowedEntry(artists, now)
  /\ UNCHANGED <<now, serverFollowed, followStatusCache,
                 followedArtistsCacheByLimit, bulk, artistDetailsCache,
                 playlistAnalysisCache, analyses, analysisLog, coreVars>>

\* lines 660-666: the first artists of the listing are kept under the limit
SetFollowedArtistsByLimit(limit) ==
  /\ now <= LastPut
  /\ followedArtistsCacheByLimit' =
       MapSet(followedArtistsCacheByLimit, limit, FollowedEntry(Ids(limit), now))
  /\ UNCHANGED <<now, serverFollowed, followStatusCache, followedArtistsCache,
                 bulk, artistDetailsCache, playlistAnalysisCache, analyses,
                 analysisLog, coreVars>>

\* lines 622-646: what getFollowedArtists(limit) takes from its caches, limit 0
\* when none is given
CachedFollowedArtists(limit) ==
  LET cachedAll == followedArtistsCache
      validAll == /\ cachedAll # NoEntry
                  /\ isCacheEntryValid(now, cachedAll.timestamp,
                                       CACHE_TTL_FOLLOWED_ARTISTS_MS)
      cachedLimit == followedArtistsCacheByLimit[limit]
  IN IF limit = 0
     THEN IF validAll THEN Hit(cachedAll.timestamp, cachedAll.artists) ELSE Miss
     ELSE IF validAll /\ Len(cachedAll.artists) >= limit
          THEN Hit(cachedAll.timestamp, Slice(cachedAll.artists, 0, limit))
     ELSE IF /\ MapHas(followedArtistsCacheByLimit, limit)
             /\ isCacheEntryValid(now, cachedLimit.timestamp,
                                  CACHE_TTL_FOLLOWED_ARTISTS_MS)
          THEN Hit(cachedLimit.timestamp, cachedLimit.artists)
     ELSE Miss

\* the stored listings that can answer getFollowedArtists(limit): the whole
\* listing when it has limit artists or more, and the listing kept under the
\* limit
StoredListings(limit) ==
  (IF /\ followedArtistsCache # NoEntry
      /\ (limit = 0 \/ Len(followedArtistsCache.artists) >= limit)
   THEN {followedArtistsCache.timestamp} ELSE {})
  \cup (IF limit = 0 THEN {} ELSE Stored(followedArtistsCacheByLimit, limit))

\* getFollowedArtists(limit) consults its caches
GetCachedFollowedArtists(limit) ==
  /\ lookup' = Looked("followed", StoredListings(limit), CachedFollowedArtists(limit))
  /\ UNCHANGED <<authVars, gateVars, retryVars, statusVars, objectVars, scanVars,
                 albums, relatedArtistsCache, ipcVars, callers, playlistVars, ui>>

\* time passes, the caller of the last lookup has its answer
TtlElapse(t) ==
  /\ t > now
  /\ now' = t
  /\ lookup' = NoLookup
  /\ UNCHANGED <<authVars, requestTimestamps, admitLog, sleepers, arrived, retryVars,
                 statusVars, objectVars, scanVars, albums, relatedArtistsCache, ipcVars, callers, playlistVars, ui>>

\* the keys of the keyed caches, and the limits of the listings
TtlKeys == {1}
TtlLimits == {0, 2}

NextTtl ==
  \/ \E id \in TtlKeys : SetArtistDetailsCache(id)
  \/ \E id \in TtlKeys : GetCachedArtistDetails(id)
  \/ \E id \in TtlKeys : SetRelatedArtistsCache(id)
  \/ \E id \in TtlKeys : GetCachedRelatedArtists(id)
  \/ \E id \in TtlKeys : SetPlaylistAnalysisCache(id)
  \/ \E id \in TtlKeys : GetCachedPlaylistAnalysis(id)
  \/ \E id \in TtlKeys, isFollowed \in BOOLEAN : SetFollowStatus(id, isFollowed)
  \/ \E id \in TtlKeys : GetFollowStatus(id)
  \/ \E artists \in Listings : SetFollowedArtists(artists)
  \/ \E limit \in TtlLimits \ {0} : SetFollowedArtistsByLimit(limit)
  \/ \E limit \in TtlLimits : GetCachedFollowedArtists(limit)
  \/ \E t \in TtlTimes : TtlElapse(t)

SpecTtl == InitGate /\ [][NextTtl]_vars

\* C24: in every kind of cache a lookup hands out a stored entry exactly when
\* an entry that can answer it is younger than the TTL of the kind, and the
\* entry handed out is one of these, never one whose age has reached the TTL
C24_LookupUsesEntryIffYounger ==
  lookup.kind # "none" =>
    /\ lookup.returned.hit <=>
         \E timestamp \in lookup.eligible : lookup.at - timestamp < TtlOf(lookup.kind)
    /\ lookup.returned.hit =>
         /\ lookup.returned.timestamp \in lookup.eligible
         /\ lookup.at - lookup.returned.timestamp < TtlOf(lookup.kind)

\* a lookup one millisecond before the expiry of the entry has used it, with
\* an older entry under another key left aside
C24_Witness ==
  /\ lookup.kind = "followed" /\ lookup.returned.hit
  /\ lookup.at - lookup.returned.timestamp = CACHE_TTL_FOLLOWED_ARTISTS_MS - 1
  /\ \E timestamp \in lookup.eligible :
       lookup.at - timestamp >= CACHE_TTL_FOLLOWED_ARTISTS_MS


(* ------------------- the listings of the followed artists --------------- *)
\* the account follows three artists with an album each
ListingFollowed == {2, 3, 4}
ListingStart == ScanDay * DAY_MS
ListingTimes ==
  {ListingStart + CACHE_TTL_FOLLOWED_ARTISTS_MS - 1,
   ListingStart + CACHE_TTL_FOLLOWED_ARTISTS_MS}
ListingLimits == {0, 2}

\* the list given to followArtistsBulk: two chunks, the first of which names
\* one artist in every place
TwoChunks == [k \in 1..(CHUNK_SIZE_FOLLOW + 1) |-> IF k <= CHUNK_SIZE_FOLLOW THEN 5 ELSE 6]
ListingFollows == {TwoChunks}

\* scanRecentReleases has returned or thrown; the next call finds it idle
ScanEnds ==
  /\ scan.pc \in {"done", "failed"}
  /\ scan' = NoScan /\ fetches' = <<>>
  /\ UNCHANGED <<authVars, gateVars, retryVars, statusVars, objectVars, albums, hubVars>>

NextListing ==
  \/ \E maxArtists \in ListingLimits : ScanStart(7, maxArtists)
  \/ FollowedPageArrives
  \/ FollowedPageFails
  \/ \E k \in 1..SCAN_BATCH_SIZE : FetchPageArrives(k)
  \/ ScanEnds
  \/ \E artistIds \in ListingFollows : FollowStart(artistIds)
  \/ \E ok \in BOOLEAN : FollowChunkSettles(ok)
  \/ FollowDelayElapsed
  \/ \E t \in ListingTimes : Elapse(t)

InitListing ==
  /\ now = ListingStart /\ requestTimestamps = <<>> /\ admitLog = <<>>
  /\ sleepers = EmptyBag /\ arrived = 0
  /\ tokens = [access_token |-> InitialToken, refresh_token |-> TRUE]
  /\ tokenRefreshPromise = Null
  /\ defaultAuthorization = InitialToken
  /\ stored = tokens
  /\ refreshes = <<>>
  /\ req = [p \in Procs |-> NewRequest]
  /\ apiSends = 0
  /\ anyResponse = FALSE
  /\ currentDelayMs = Ms(DEFAULT_DELAY_MS) /\ call = NoCall /\ history = <<>>
  /\ random = 0
  /\ serverFollowed = ListingFollowed
  /\ followStatusCache = <<>>
  /\ followedArtistsCache = NoEntry
  /\ followedArtistsCacheByLimit = <<>>
  /\ bulk = NoBulk
  /\ artistDetailsCache = <<>>
  /\ playlistAnalysisCache = <<>>
  /\ analyses = [a \in Analyses |-> NoAnalysis]
  /\ analysisLog = <<>>
  /\ InitOthers

SpecListing == InitListing /\ [][NextListing]_vars

\* getFollowedArtists(N) is called with a valid whole listing of N artists or more
FromWholeListing ==
  /\ scan.pc = "idle" /\ scan'.pc # "idle" /\ scan'.maxArtists > 0
  /\ followedArtistsCache # NoEntry
  /\ now - followedArtistsCache.timestamp < CACHE_TTL_FOLLOWED_ARTISTS_MS
  /\ Len(followedArtistsCache.artists) >= scan'.maxArtists

\* followArtistsBulk returns after a chunk of it has succeeded
ReturnsWithFollowed ==
  bulk.pc # "returned" /\ bulk'.pc = "returned" /\ bulk'.followedCount > 0

\* C25: getFollowedArtists(N), N > 0, called while the whole listing is cached,
\* valid and N artists long or longer, requests no page and returns the first
\* N artists of that listing; and when followArtistsBulk returns after a chunk
\* of it has succeeded, the whole listing and every first-N listing are gone
C25_FirstOfWholeListingAndCleared ==
  [][/\ FromWholeListing =>
          /\ scan'.requested = <<>>
          /\ scan'.pc # "following"
          /\ scan'.artists = SubSeq(followedArtistsCache.artists, 1, scan'.maxArtists)
          /\ UNCHANGED <<followedArtistsCache, followedArtistsCacheByLimit>>
     /\ ReturnsWithFollowed =>
          /\ followedArtistsCache' = NoEntry
          /\ followedArtistsCacheByLimit' = <<>>]_vars

\* a scan of two artists has been answered from a whole listing of three, and
\* a followArtistsBulk whose first chunk failed and whose second chunk
\* succeeded has returned
C25_Witness ==
  /\ bulk.pc = "returned" /\ bulk.followedCount > 0 /\ bulk.failedArtists # <<>>
  /\ followedArtistsCache = NoEntry /\ followedArtistsCacheByLimit = <<>>
  /\ scan.pc # "idle" /\ scan.maxArtists = 2 /\ scan.requested = <<>>
  /\ scan.artists = <<2, 3>>



(* --------------------- the handlers of the main process ----------------- *)
\* the invocations of a run
MaxIpc == 4

\* the channels of the facade's operations
FacadeChannels ==
  {"ANALYZE_PLAYLIST", "FOLLOW_ARTISTS", "SCAN_RELEASES", "CREATE_PLAYLIST",
   "GET_TRACKS_FROM_ALBUMS", "CREATE_PLAYLIST_FROM_TRACKS"}

\* store.get('tokens') of a store that holds no tokens
NoTokens == [access_token |-> Null, refresh_token |-> FALSE]

\* an invocation: the handler's channel, the instance it found in
\* spotifyService, the requests its operation has sent, and its reply
Invocation(channel, service) ==
  [channel |-> channel, service |-> service, st |-> "running", sends |-> 0,
   success |-> FALSE, error |-> ""]
Replied(invocation, success, error) ==
  [invocation EXCEPT !.st = "replied", !.success = success, !.error = error]

\* the instances constructed so far
Instances == Cardinality({i \in DOMAIN ipc : ipc[i].service # Null /\ ipc[i].st = "replied"
                                            /\ ipc[i].channel \in {"AUTH_START", "AUTH_CHECK"}})

ipcFrame == <<tokens, tokenRefreshPromise, defaultAuthorization, refreshes, req,
              anyResponse, gateVars, retryVars, statusVars, objectVars, scanVars,
              albums, relatedArtistsCache, lookup, callers, playlistVars, ui>>

\* AUTH_START is invoked: the handler awaits authService.authenticate()
AuthStart ==
  /\ Len(ipc) < MaxIpc
  /\ ipc' = Append(ipc, Invocation("AUTH_START", Null))
  /\ UNCHANGED <<spotifyService, stored, apiSends, ipcFrame>>

\* authenticate() settles: it has stored the tokens it resolves with, and the
\* handler constructs the service; or it rejects and the handler replies so
AuthenticateSettles(i, ok) ==
  /\ i \in DOMAIN ipc /\ ipc[i].channel = "AUTH_START" /\ ipc[i].st = "running"
  /\ IF ok
     THEN /\ stored' = tokens
          /\ spotifyService' = Instances + 1
          /\ ipc' = [ipc EXCEPT ![i] = Replied([@ EXCEPT !.service = Instances + 1],
                                               TRUE, "")]
     ELSE /\ ipc' = [ipc EXCEPT ![i] = Replied(@, FALSE, "Authentication failed")]
          /\ UNCHANGED <<spotifyService, stored>>
  /\ UNCHANGED <<apiSends, ipcFrame>>

\* AUTH_CHECK
AuthCheck ==
  /\ Len(ipc) < MaxIpc
  /\ IF stored # NoTokens
     THEN /\ spotifyService' = Instances + 1
          /\ ipc' = Append(ipc, Replied(Invocation("AUTH_CHECK", Instances + 1), TRUE, ""))
     ELSE /\ ipc' = Append(ipc, Replied(Invocation("AUTH_CHECK", Null), FALSE, ""))
          /\ UNCHANGED spotifyService
  /\ UNCHANGED <<stored, apiSends, ipcFrame>>

\* AUTH_LOGOUT
AuthLogout ==
  /\ Len(ipc) < MaxIpc
  /\ stored' = NoTokens
  /\ spotifyService' = Null
  /\ ipc' = Append(ipc, Replied(Invocation("AUTH_LOGOUT", Null), TRUE, ""))
  /\ UNCHANGED <<apiSends, ipcFrame>>

\* mutant: the handler calls the operation whether there is a service or not
Invoke_Unguarded(channel) ==
  /\ Len(ipc) < MaxIpc
  /\ ipc' = Append(ipc, Invocation(channel, spotifyService))
  /\ UNCHANGED <<spotifyService, stored, apiSends, ipcFrame>>

\* a handler of the facade is invoked: without a service it throws
\* 'Not authenticated' and replies with the message; with one it calls the
\* operation and awaits it
Invoke(channel) ==
  /\ Len(ipc) < MaxIpc
  /\ ipc' = Append(ipc,
                   IF spotifyService = Null
                   THEN Replied(Invocation(channel, Null), FALSE, "Not authenticated")
                   ELSE Invocation(channel, spotifyService))
  /\ UNCHANGED <<spotifyService, stored, apiSends, ipcFrame>>

\* the operation of a running invocation sends a request to the catalog
OperationSends(i) ==
  /\ i \in DOMAIN ipc /\ ipc[i].channel \in FacadeChannels /\ ipc[i].st = "running"
  /\ ipc[i].sends = 0
  /\ ipc' = [ipc EXCEPT ![i].sends = @ + 1]
  /\ apiSends' = apiSends + 1
  /\ UNCHANGED <<spotifyService, stored, ipcFrame>>

\* the service of a running invocation has its token refreshed: the new
\* tokens are stored (SpotifyService.refreshAccessToken)
OperationStoresTokens(i) ==
  /\ i \in DOMAIN ipc /\ ipc[i].channel \in FacadeChannels /\ ipc[i].st = "running"
  /\ ipc[i].sends > 0 /\ stored # tokens
  /\ stored' = tokens
  /\ UNCHANGED <<spotifyService, ipc, apiSends, ipcFrame>>

\* the operation returns or throws, and the handler replies
OperationSettles(i, ok) ==
  /\ i \in DOMAIN ipc /\ ipc[i].channel \in FacadeChannels /\ ipc[i].st = "running"
  /\ ipc' = [ipc EXCEPT ![i] = Replied(@, ok, IF ok THEN "" ELSE "Request failed")]
  /\ UNCHANGED <<spotifyService, stored, apiSends, ipcFrame>>

NextIpc ==
  \/ AuthStart
  \/ \E i \in 1..MaxIpc, ok \in BOOLEAN : AuthenticateSettles(i, ok)
  \/ AuthCheck
  \/ AuthLogout
  \/ \E channel \in FacadeChannels : Invoke(channel)
  \/ \E i \in 1..MaxIpc : OperationSends(i)
  \/ \E i \in 1..MaxIpc : OperationStoresTokens(i)
  \/ \E i \in 1..MaxIpc, ok \in BOOLEAN : OperationSettles(i, ok)

\* the application has started: no service yet; the store holds the tokens of
\* an earlier run, or none
InitIpc ==
  /\ now = 0 /\ requestTimestamps = <<>> /\ admitLog = <<>>
  /\ sleepers = EmptyBag /\ arrived = 0
  /\ tokens = [access_token |-> InitialToken, refresh_token |-> TRUE]
  /\ tokenRefreshPromise = Null
  /\ defaultAuthorization = InitialToken
  /\ stored \in {NoTokens, tokens}
  /\ refreshes = <<>>
  /\ req = [p \in Procs |-> NewRequest]
  /\ apiSends = 0
  /\ anyResponse = FALSE
  /\ currentDelayMs = Ms(DEFAULT_DELAY_MS) /\ call = NoCall /\ history = <<>>
  /\ random = 0
  /\ serverFollowed = {}
  /\ followStatusCache = <<>>
  /\ followedArtistsCache = NoEntry
  /\ followedArtistsCacheByLimit = <<>>
  /\ bulk = NoBulk
  /\ artistDetailsCache = <<>>
  /\ playlistAnalysisCache = <<>>
  /\ analyses = [a \in Analyses |-> NoAnalysis]
  /\ analysisLog = <<>>
  /\ heap = <<>> /\ held = {} /\ entries = <<>> /\ mutations = 0
  /\ scan = NoScan /\ fetches = <<>>
  /\ albums = NoAlbums
  /\ relatedArtistsCache = <<>> /\ lookup = NoLookup
  /\ spotifyService = Null /\ ipc = <<>>
  /\ callers = <<>>
  /\ creation = NoCreation /\ albumTrackCache = <<>>
  /\ ui = NoUi

SpecIpc == InitIpc /\ [][NextIpc]_vars

\* the invocation that is new in this step, or that has been replied to in it
Fresh(i) ==
  /\ i \in DOMAIN ipc'
  /\ i \in DOMAIN ipc => ipc[i].st = "running" /\ ipc'[i].st = "replied"

\* C26: a handler of the facade invoked while there is no session replies at
\* once with success false and 'Not authenticated' and sends nothing, and the
\* session comes into being only where AUTH_START has succeeded or
\* AUTH_CHECK has found stored tokens
C26_NoSessionNotAuthenticated ==
  [][/\ \A i \in DOMAIN ipc' :
          (i \notin DOMAIN ipc /\ ipc'[i].channel \in FacadeChannels
             /\ spotifyService = Null)
          => /\ ipc'[i] = Replied(Invocation(ipc'[i].channel, Null), FALSE,
                                  "Not authenticated")
             /\ apiSends' = apiSends
     /\ \A i \in DOMAIN ipc :
          (ipc[i].channel \in FacadeChannels /\ ipc[i].service = Null)
          => ipc'[i] = ipc[i]
     /\ (spotifyService = Null /\ spotifyService' # Null)
          => \E i \in DOMAIN ipc' :
               /\ Fresh(i) /\ ipc'[i].success
               /\ \/ ipc'[i].channel = "AUTH_START"
                  \/ ipc'[i].channel = "AUTH_CHECK" /\ stored # NoTokens]_vars

\* after a session and a logout an operation has been refused, while an
\* operation invoked during the session has sent its request
C26_Witness ==
  \E i, j, k \in DOMAIN ipc :
    /\ i < j /\ j < k
    /\ ipc[i].channel \in FacadeChannels /\ ipc[i].service # Null /\ ipc[i].sends > 0
    /\ ipc[j].channel = "AUTH_LOGOUT"
    /\ ipc[k].channel \in FacadeChannels /\ ipc[k].error = "Not authenticated"
    /\ spotifyService = Null



(* ------------------ the adaptive delay under concurrent calls ----------- *)
\* the apiCallWithRetry calls that run side by side
NumCallers == 2
Callers == 1..NumCallers

\* a call that is not running
Resting == [pc |-> "idle", attempt |-> 0]

delayFrame == <<authVars, gateVars, call, history, random, statusVars, objectVars,
                scanVars, albums, relatedArtistsCache, lookup, ipcVars, playlistVars, ui>>

\* line 304: the head of the loop with the attempt's number; past the last
\* attempt the call throws 'Max retries exceeded'
CallerLoop(c, attempt) ==
  [callers EXCEPT ![c] = IF attempt < maxRetries
                         THEN [pc |-> "calling", attempt |-> attempt]
                         ELSE Resting]

\* apiCallWithRetry is called
CallerStarts(c) ==
  /\ callers[c].pc = "idle"
  /\ callers' = CallerLoop(c, 0)
  /\ UNCHANGED <<currentDelayMs, delayFrame>>

\* lines 310-312: the wrapped call fulfils, the delay decays, the result is
\* returned
CallerSucceeds(c) ==
  /\ callers[c].pc = "calling"
  /\ currentDelayMs' = Decay(currentDelayMs)
  /\ callers' = [callers EXCEPT ![c] = Resting]
  /\ UNCHANGED delayFrame

\* lines 315-318 and 286-296: the wrapped call is answered 429; a wait above
\* the ceiling is thrown to the caller, any other is slept through
CallerRateLimited(c, retryAfter) ==
  /\ callers[c].pc = "calling"
  /\ callers' = [callers EXCEPT ![c] =
                   IF ExceedsCeiling(RequestedWait(retryAfter)) THEN Resting
                   ELSE [@ EXCEPT !.pc = "limited"]]
  /\ UNCHANGED <<currentDelayMs, delayFrame>>

\* lines 296-298 and 317: the wait is over, the delay grows, and the loop goes
\* on with the next attempt
CallerWakes(c) ==
  /\ callers[c].pc = "limited"
  /\ currentDelayMs' = Grow(currentDelayMs)
  /\ callers' = CallerLoop(c, callers[c].attempt + 1)
  /\ UNCHANGED delayFrame

\* lines 320-346: the wrapped call fails otherwise; on the last attempt the
\* error is thrown, before it the call backs off
CallerFails(c) ==
  /\ callers[c].pc = "calling"
  /\ callers' = [callers EXCEPT ![c] =
                   IF IsLastAttempt(@.attempt) THEN Resting
                   ELSE [@ EXCEPT !.pc = "backoff"]]
  /\ UNCHANGED <<currentDelayMs, delayFrame>>

\* the backoff is over: the next attempt
CallerBackoffEnds(c) ==
  /\ callers[c].pc = "backoff"
  /\ callers' = CallerLoop(c, callers[c].attempt + 1)
  /\ UNCHANGED <<currentDelayMs, delayFrame>>

NextDelay ==
  \/ \E c \in Callers : CallerStarts(c)
  \/ \E c \in Callers : CallerSucceeds(c)
  \/ \E c \in Callers, retryAfter \in RetryAfterHeaders : CallerRateLimited(c, retryAfter)
  \/ \E c \in Callers : CallerWakes(c)
  \/ \E c \in Callers : CallerFails(c)
  \/ \E c \in Callers : CallerBackoffEnds(c)

InitDelay ==
  /\ now = 0 /\ requestTimestamps = <<>> /\ admitLog = <<>>
  /\ sleepers = EmptyBag /\ arrived = 0
  /\ tokens = [access_token |-> InitialToken, refresh_token |-> TRUE]
  /\ tokenRefreshPromise = Null
  /\ defaultAuthorization = InitialToken
  /\ stored = tokens
  /\ refreshes = <<>>
  /\ req = [p \in Procs |-> NewRequest]
  /\ apiSends = 0
  /\ anyResponse = FALSE
  /\ currentDelayMs = Ms(DEFAULT_DELAY_MS) /\ call = NoCall /\ history = <<>>
  /\ random = 0
  /\ serverFollowed = {}
  /\ followStatusCache = <<>>
  /\ followedArtistsCache = NoEntry
  /\ followedArtistsCacheByLimit = <<>>
  /\ bulk = NoBulk
  /\ artistDetailsCache = <<>>
  /\ playlistAnalysisCache = <<>>
  /\ analyses = [a \in Analyses |-> NoAnalysis]
  /\ analysisLog = <<>>
  /\ heap = <<>> /\ held = {} /\ entries = <<>> /\ mutations = 0
  /\ scan = NoScan /\ fetches = <<>>
  /\ albums = NoAlbums
  /\ relatedArtistsCache = <<>> /\ lookup = NoLookup
  /\ spotifyService = 1 /\ ipc = <<>>
  /\ callers = [c \in Callers |-> Resting]
  /\ creation = NoCreation /\ albumTrackCache = <<>>
  /\ ui = NoUi

SpecDelay == InitDelay /\ [][NextDelay]_vars

\* a call has returned its result in this step
ReturnedNow(c) == callers[c].pc = "calling" /\ callers'[c] = Resting
\* a call has come out of the wait of a 429 in this step
WokeNow(c) == callers[c].pc = "limited" /\ callers'[c].pc # "limited"

\* C27: the adaptive delay stays between 200 ms and 2000 ms, and it changes
\* only where a call succeeds, to max(200, floor(0.9 * delay)), or where the
\* wait of a 429 is over, to min(1.5 * delay, 2000)
C27_DelayWithinBounds ==
  /\ [](Ms(DEFAULT_DELAY_MS) <= currentDelayMs /\ currentDelayMs <= Ms(MAX_DYNAMIC_DELAY_MS))
  /\ [][currentDelayMs' # currentDelayMs =>
          \E c \in Callers :
            \/ /\ ReturnedNow(c)
               /\ currentDelayMs' = Max(200 * 32, 32 * ((currentDelayMs * 9) \div 320))
            \/ /\ WokeNow(c)
               /\ 2 * currentDelayMs' = Min(3 * currentDelayMs, 2 * 2000 * 32)]_vars

\* the delay is at its ceiling while one call waits out a 429 and another is
\* under way
C27_Witness ==
  /\ currentDelayMs = Ms(MAX_DYNAMIC_DELAY_MS)
  /\ \E c, d \in Callers : callers[c].pc = "limited" /\ callers[d].pc = "calling"


(* ------------------ what the last attempt throws ------------------------ *)
\* the failure the call has thrown on
LastFailure == history[Len(history)].err

\* C28: a call that has thrown after a failure other than a 429 has done so
\* on its last attempt, never before; what it has thrown is a new error
\* stating the number of attempts when the failure was a transient network
\* error, and the error object of the failure itself otherwise
C28_LastAttemptSurfaces ==
  (call.pc = "threw" /\ history # <<>> /\ history[Len(history)].res = "error"
     /\ LastFailure.status # 429)
  => /\ call.attempt = maxRetries - 1 /\ Len(history) = maxRetries
     /\ IF LastFailure.code \in {"ECONNRESET", "ETIMEDOUT", "ECONNABORTED"}
        THEN /\ call.thrown.fresh /\ call.thrown.attempts = maxRetries
             /\ call.thrown.text = "Network error after attempts"
        ELSE /\ ~call.thrown.fresh
             /\ call.thrown.of = LastFailure.of /\ call.thrown.n = LastFailure.n

\* the fifth attempt has failed with a connection reset after a server error
\* on an earlier attempt, and the call has thrown
C28_Witness ==
  /\ call.pc = "threw" /\ Len(history) = maxRetries
  /\ LastFailure.code = "ECONNRESET"
  /\ \E i \in 1..(maxRetries - 1) : history[i].err.status = 500
  /\ call.thrown.fresh


(* ------------------ the slot of the refresh in flight ------------------- *)
\* the refreshes that have completed
Completed == {id \in DOMAIN refreshes : refreshes[id].st # "pending"}

\* request p is answered 401 for the first time in this step, with a refresh
\* token at hand
First401(p) ==
  /\ req[p].st = "sent" /\ ~req[p].retry
  /\ req'[p].retry /\ req'[p].responses = req[p].responses + 1 /\ req'[p].last = 401
  /\ tokens.refresh_token

\* C29: once a refresh has completed, with new tokens or without, the slot
\* does not hold it and no request awaits it; a 401 that comes after it starts
\* a refresh of its own and awaits that one
C29_SlotEmptyAfterRefresh ==
  /\ [](/\ tokenRefreshPromise \notin Completed
        /\ \A p \in Procs : req[p].st = "awaitRefresh" => req[p].waitsOn \notin Completed)
  /\ [][\A p \in Procs :
          (First401(p) /\ tokenRefreshPromise = Null /\ Completed # {})
          => /\ Len(refreshes') = Len(refreshes) + 1
             /\ tokenRefreshPromise' = Len(refreshes')
             /\ refreshes'[Len(refreshes')].st = "pending"
             /\ req'[p].st = "awaitRefresh" /\ req'[p].waitsOn = Len(refreshes')]_vars

\* after a refresh that failed and one that succeeded, a third is in flight
\* for a request that was answered 401 later
C29_Witness ==
  /\ Len(refreshes) = 3
  /\ refreshes[1].st = "failed" /\ refreshes[2].st = "done"
  /\ tokenRefreshPromise = 3
  /\ \E p \in Procs : req[p].st = "awaitRefresh" /\ req[p].waitsOn = 3



(* ------------------ the credential and its replacement ------------------ *)
\* the refresh that completes in this step with new tokens for its callers
SucceedsNow(id) ==
  /\ id \in DOMAIN refreshes /\ refreshes[id].st = "pending"
  /\ refreshes'[id].st = "done"

\* the access token of the latest refresh that has completed with new tokens
\* for its callers, or the token the service was constructed with
LatestIssued ==
  LET done == {id \in DOMAIN refreshes : refreshes[id].st = "done"}
  IN IF done = {} THEN InitialToken
     ELSE refreshes[CHOOSE id \in done : \A other \in done : other <= id].value

\* the credential is replaced only where a refresh succeeds, and then by the
\* token that refresh hands to its callers, which is also the one stored
ReplacedOnlyBySuccess ==
  tokens' # tokens =>
    \E id \in DOMAIN refreshes :
      /\ SucceedsNow(id)
      /\ tokens'.access_token = refreshes'[id].value
      /\ stored' = tokens'

\* a refresh that succeeds replaces the credential and stores it
SuccessReplacesAndStores ==
  \A id \in DOMAIN refreshes :
    SucceedsNow(id) => /\ tokens'.access_token = refreshes'[id].value
                       /\ stored' = tokens'

\* a request dispatched in this step carries the token of the latest refresh
\* that has succeeded
DispatchedWithLatest ==
  \A p \in Procs :
    (req[p].st = "idle" /\ req'[p].st = "sent") => req'[p].authorization = LatestIssued

\* C30: the credential of the service changes only by a refresh that
\* succeeds, which replaces it and stores the new tokens, and every request
\* dispatched after a refresh has succeeded carries the new access token.
\* Violated: when storeTokens throws, the .then handler has already replaced
\* the credential, the refresh fails for its callers and nothing is stored
C30_CredentialOnlyBySuccessfulRefresh ==
  [][ReplacedOnlyBySuccess /\ SuccessReplacesAndStores /\ DispatchedWithLatest]_vars

\* what the code does keep: the credential changes only where the issuer has
\* answered a refresh with new tokens, and a refresh that succeeds for its
\* callers has replaced and stored it
ReplacedWhereIssued ==
  [][/\ tokens' # tokens =>
          \E id \in DOMAIN refreshes :
            /\ refreshes[id].st = "pending" /\ refreshes'[id].st # "pending"
            /\ tokens'.access_token = MintedToken(id)
     /\ SuccessReplacesAndStores]_vars



(* ------------------ the result of an analysis ---------------------------- *)
\* the artists of the playlist the account may follow
MixedArtists == 1..4

NextAnalysis ==
  \/ \E a \in Analyses, playlistId \in {1, MixedPlaylist} : AnalyzeStart(a, playlistId)
  \/ \E a \in Analyses : AnalyzeInfoArrives(a)
  \/ \E a \in Analyses : AnalyzePageArrives(a)
  \/ \E a \in Analyses : AnalyzeArtistsArrive(a)
  \/ \E a \in Analyses : CatalogAnswersContains(a)
  \/ \E a \in Analyses : AnalyzeStatusesArrive(a)
  \/ \E a \in Analyses : AnalyzeFails(a)

InitAnalysis ==
  /\ now = 0 /\ requestTimestamps = <<>> /\ admitLog = <<>>
  /\ sleepers = EmptyBag /\ arrived = 0
  /\ tokens = [access_token |-> InitialToken, refresh_token |-> TRUE]
  /\ tokenRefreshPromise = Null
  /\ defaultAuthorization = InitialToken
  /\ stored = tokens
  /\ refreshes = <<>>
  /\ req = [p \in Procs |-> NewRequest]
  /\ apiSends = 0
  /\ anyResponse = FALSE
  /\ currentDelayMs = Ms(DEFAULT_DELAY_MS) /\ call = NoCall /\ history = <<>>
  /\ random = 0
  /\ serverFollowed \in SUBSET MixedArtists
  /\ followStatusCache = <<>>
  /\ followedArtistsCache = NoEntry
  /\ followedArtistsCacheByLimit = <<>>
  /\ bulk = NoBulk
  /\ artistDetailsCache = <<>>
  /\ playlistAnalysisCache = <<>>
  /\ analyses = [a \in Analyses |-> NoAnalysis]
  /\ analysisLog = <<>>
  /\ InitOthers

SpecAnalysis == InitAnalysis /\ [][NextAnalysis]_vars

\* how often the artist occurs on the tracks of the playlist
Occurrences(playlistId, id) ==
  Cardinality({k \in DOMAIN PlaylistTracks(playlistId) : PlaylistTracks(playlistId)[k] = id})

\* C31: an analysis that went to the catalog returns the artists that occur
\* on the tracks of the playlist and are not followed, each once and with the
\* number of its occurrences on all pages as frequency, the more frequent
\* first and artists of one frequency by name
C31_UnfollowedByFrequencyThenName ==
  \A a \in Analyses :
    (analyses[a].pc = "returned" /\ analyses[a].net > 0)
    => LET list == analyses[a].response.unfollowedArtists
           tracks == PlaylistTracks(analyses[a].playlistId)
       IN /\ {list[i].id : i \in DOMAIN list} = (Range(tracks) \ {0}) \ serverFollowed
          /\ \A i, j \in DOMAIN list : list[i].id = list[j].id => i = j
          /\ \A i \in DOMAIN list :
               list[i].frequency = Occurrences(analyses[a].playlistId, list[i].id)
          /\ \A i, j \in DOMAIN list :
               i < j => \/ list[i].frequency > list[j].frequency
                        \/ /\ list[i].frequency = list[j].frequency
                           /\ list[i].id < list[j].id

\* the two-page playlist has been analysed for an account that follows none
\* of its artists: artist 2 of both pages is second, artist 3 precedes artist 4
C31_Witness ==
  \E a \in Analyses :
    /\ analyses[a].pc = "returned" /\ analyses[a].net > 0
    /\ analyses[a].playlistId = MixedPlaylist
    /\ Len(analyses[a].response.unfollowedArtists) = 4
    /\ analyses[a].response.unfollowedArtists[2].id = 2
    /\ analyses[a].response.unfollowedArtists[2].frequency = 2
    /\ analyses[a].response.unfollowedArtists[3].id = 3



(* ------------------ the pages asked for an artist ------------------------ *)
\* the calls of getRecentReleasesForArtist of the scan: those of the batch
\* that is awaited and those that have been fulfilled
FetchesSoFar == Range(fetches) \cup Range(scan.fulfilled)

\* the last item of the first page is a release known to the day and older
\* than the cutoff
LastIsOld(artistId, albumType, sinceDate) ==
  LET items == AlbumPage(artistId, albumType, 0).items
  IN /\ items # <<>>
     /\ items[Len(items)].release_date_precision = "day"
     /\ items[Len(items)].release_date * DAY_MS < sinceDate

\* C32: a call of getRecentReleasesForArtist asks for at most two pages of a
\* group and four in all, no page twice, and for the second page of a group
\* only when the first one named a next page and did not end with a release
\* known to the day and older than the cutoff
C32_AtMostTwoPagesPerType ==
  \A f \in FetchesSoFar :
    /\ Len(f.requested) <= 4
    /\ \A i, j \in DOMAIN f.requested : f.requested[i] = f.requested[j] => i = j
    /\ \A i \in DOMAIN f.requested :
         /\ f.requested[i].type \in DOMAIN albumTypes
         /\ f.requested[i].offset \in {0, ALBUM_PAGE_LIMIT}
         /\ f.requested[i].offset = ALBUM_PAGE_LIMIT =>
              /\ AlbumPage(f.artistId, albumTypes[f.requested[i].type], 0).next
              /\ ~LastIsOld(f.artistId, albumTypes[f.requested[i].type], scan.sinceDate)

\* the albums of artist 1 fill more than a page: a scan of two weeks has
\* asked for the second page of the albums and then for the singles
C32_Witness ==
  \E f \in Range(scan.fulfilled) :
    /\ f.artistId = 1
    /\ AlbumPage(1, "album", 0).next
    /\ ~LastIsOld(1, "album", scan.sinceDate)
    /\ f.requested = <<[type |-> 1, offset |-> 0], [type |-> 1, offset |-> ALBUM_PAGE_LIMIT],
                       [type |-> 2, offset |-> 0]>>

(* ------------------ the progress of a scan ------------------------------- *)
\* the artists whose call of the batch has settled
Settled == FulfilledArtists \cup scan.rejected

\* C33: the update that reports a batch is emitted when the calls of the
\* batch have settled: the artists counted by the last update have all been
\* fetched or have failed
C33_ProgressCountsSettledArtists ==
  scan.progress # <<>> =>
    LET update == scan.progress[Len(scan.progress)]
    IN /\ update.current <= Cardinality(Settled)
       /\ Range(update.batch) \subseteq Settled



(* ------------------ the creation of a playlist --------------------------- *)
CHUNK_SIZE_PLAYLIST_ADD == 100
ALBUMS_BATCH == 20

\* mutant: the album IDs as they were given
Unique_AsGiven(albumIds) == albumIds
\* Array.from(new Set(albumIds)): each ID once, in the order of first occurrence
RECURSIVE Unique(_)
Unique(albumIds) ==
  IF albumIds = <<>> THEN <<>>
  ELSE LET rest == Unique(SubSeq(albumIds, 1, Len(albumIds) - 1))
           last == albumIds[Len(albumIds)]
       IN IF last \in Range(rest) THEN rest ELSE Append(rest, last)

\* Map.set: the value of a key that is present is replaced where it stands, a
\* new key goes to the end
SetInOrder(map, key, value) ==
  IF \E n \in DOMAIN map : map[n].key = key
  THEN [n \in DOMAIN map |-> IF map[n].key = key THEN [key |-> key, value |-> value]
                             ELSE map[n]]
  ELSE Append(map, [key |-> key, value |-> value])

\* for (const ids of albumTrackMap.values()) trackIds.push(...ids)
RECURSIVE Values(_)
Values(map) ==
  IF map = <<>> THEN <<>> ELSE Head(map).value \o Values(Tail(map))

\* a request of the operation, with whether the playlist existed when it was made
Asked(c, kind, ids) ==
  [c EXCEPT !.requests = Append(@, [kind |-> kind, ids |-> ids, created |-> c.created])]

\* the loop over the chunks at its head: the next chunk is posted, or the
\* operation returns
AddLoop(c, i) ==
  IF i < Len(c.trackIds)
  THEN [Asked(c, "add", Slice(c.trackIds, i, CHUNK_SIZE_PLAYLIST_ADD))
          EXCEPT !.pc = "adding", !.i = i]
  ELSE [c EXCEPT !.pc = "done", !.i = i,
                 !.tracksAdded = IF c.from = "releases" THEN Len(c.trackIds) ELSE @]

\* getAlbumTrackMap: the loop over the batches of album IDs at its head, and
\* the loop over the albums of a response; collectAllTrackIdsFromAlbum answers
\* from the cache, or from the tracks that came with the album, or asks for
\* the pages that follow
RECURSIVE BatchLoop(_, _, _)
RECURSIVE AlbumLoopOfBatch(_, _, _)
BatchLoop(c, cache, i) ==
  IF i < Len(c.uniqueAlbumIds)
  THEN [creation |-> [Asked(c, "albums", Slice(c.uniqueAlbumIds, i, ALBUMS_BATCH))
                        EXCEPT !.pc = "albums", !.i = i],
        albumTrackCache |-> cache]
  ELSE [creation |-> AddLoop([c EXCEPT !.trackIds = Values(c.albumTrackMap)], 0),
        albumTrackCache |-> cache]
AlbumLoopOfBatch(c, cache, k) ==
  IF k > Len(c.batch) THEN BatchLoop(c, cache, c.i + ALBUMS_BATCH)
  ELSE LET album == c.batch[k]
           summary == TracksPage(album, 0)
       IN IF album = 0 THEN AlbumLoopOfBatch(c, cache, k + 1)
          ELSE IF MapHas(cache, album)
          THEN AlbumLoopOfBatch([c EXCEPT !.albumTrackMap = SetInOrder(@, album, cache[album])],
                                cache, k + 1)
          ELSE IF summary.next
          THEN [creation |-> [Asked(c, "tracks", <<album, TRACK_PAGE_LIMIT>>)
                                EXCEPT !.pc = "tracks", !.k = k,
                                       !.offset = TRACK_PAGE_LIMIT,
                                       !.collected = summary.items],
                albumTrackCache |-> cache]
          ELSE AlbumLoopOfBatch([c EXCEPT !.albumTrackMap = SetInOrder(@, album, summary.items)],
                                MapSet(cache, album, summary.items), k + 1)

\* createPlaylistFromReleases(name, releases, isPublic), the releases by their
\* album IDs
CreatePlaylistFromReleases(releases) ==
  /\ creation.pc = "idle"
  /\ creation' = [Asked(NoCreation, "me", <<>>)
                    EXCEPT !.pc = "me", !.from = "releases", !.releases = releases]
  /\ UNCHANGED <<albumTrackCache, authVars, gateVars, retryVars, statusVars, objectVars,
                 scanVars, albums, relatedArtistsCache, lookup, ipcVars, callers, ui>>

\* createPlaylistFromTracks(name, trackUris, isPublic)
CreatePlaylistFromTracks(trackUris) ==
  /\ creation.pc = "idle"
  /\ creation' = [Asked(NoCreation, "me", <<>>)
                    EXCEPT !.pc = "me", !.from = "tracks", !.trackIds = trackUris]
  /\ UNCHANGED <<albumTrackCache, authVars, gateVars, retryVars, statusVars, objectVars,
                 scanVars, albums, relatedArtistsCache, lookup, ipcVars, callers, ui>>

\* GET /me has answered: the playlist is posted
UserArrives ==
  /\ creation.pc = "me"
  /\ creation' = [Asked(creation, "create", <<>>) EXCEPT !.pc = "creating"]
  /\ UNCHANGED <<albumTrackCache, authVars, gateVars, retryVars, statusVars, objectVars,
                 scanVars, albums, relatedArtistsCache, lookup, ipcVars, callers, ui>>

\* the playlist has been created: the tracks of the releases are collected,
\* or the chunks of the given tracks are posted
PlaylistArrives ==
  /\ creation.pc = "creating"
  /\ LET c == [creation EXCEPT !.created = TRUE]
         go == IF c.from = "tracks"
               THEN [creation |-> AddLoop(c, 0), albumTrackCache |-> albumTrackCache]
               ELSE BatchLoop([c EXCEPT !.uniqueAlbumIds = Unique(c.releases)],
                              albumTrackCache, 0)
     IN creation' = go.creation /\ albumTrackCache' = go.albumTrackCache
  /\ UNCHANGED <<authVars, gateVars, retryVars, statusVars, objectVars,
                 scanVars, albums, relatedArtistsCache, lookup, ipcVars, callers, ui>>

\* GET /albums?ids= has answered: an album for every ID the catalog knows,
\* null for the others
AlbumsArrive ==
  /\ creation.pc = "albums"
  /\ LET asked == Slice(creation.uniqueAlbumIds, creation.i, ALBUMS_BATCH)
         go == AlbumLoopOfBatch([creation EXCEPT !.batch = asked], albumTrackCache, 1)
     IN creation' = go.creation /\ albumTrackCache' = go.albumTrackCache
  /\ UNCHANGED <<authVars, gateVars, retryVars, statusVars, objectVars,
                 scanVars, albums, relatedArtistsCache, lookup, ipcVars, callers, ui>>

\* a further page of an album's tracks has arrived
NextTracksArrive ==
  /\ creation.pc = "tracks"
  /\ LET album == creation.batch[creation.k]
         nextData == TracksPage(album, creation.offset)
         trackIds == creation.collected \o nextData.items
         go == IF nextData.next
               THEN [creation |-> [Asked(creation, "tracks",
                                         <<album, creation.offset + TRACK_PAGE_LIMIT>>)
                                     EXCEPT !.collected = trackIds,
                                            !.offset = @ + TRACK_PAGE_LIMIT],
                     albumTrackCache |-> albumTrackCache]
               ELSE AlbumLoopOfBatch(
                      [creation EXCEPT !.albumTrackMap = SetInOrder(@, album, trackIds),
                                       !.collected = <<>>],
                      MapSet(albumTrackCache, album, trackIds), creation.k + 1)
     IN creation' = go.creation /\ albumTrackCache' = go.albumTrackCache
  /\ UNCHANGED <<authVars, gateVars, retryVars, statusVars, objectVars,
                 scanVars, albums, relatedArtistsCache, lookup, ipcVars, callers, ui>>

\* a chunk has been added to the playlist
ChunkAdded ==
  /\ creation.pc = "adding"
  /\ LET chunk == Slice(creation.trackIds, creation.i, CHUNK_SIZE_PLAYLIST_ADD)
         c == [creation EXCEPT !.tracksAdded = IF creation.from = "tracks"
                                               THEN @ + Len(chunk) ELSE @]
     IN creation' = AddLoop(c, creation.i + CHUNK_SIZE_PLAYLIST_ADD)
  /\ UNCHANGED <<albumTrackCache, authVars, gateVars, retryVars, statusVars, objectVars,
                 scanVars, albums, relatedArtistsCache, lookup, ipcVars, callers, ui>>

\* a request of the operation fails for good: the operation throws
CreationFails ==
  /\ creation.pc \in {"me", "creating", "albums", "tracks", "adding"}
  /\ creation' = [creation EXCEPT !.pc = "failed"]
  /\ UNCHANGED <<albumTrackCache, authVars, gateVars, retryVars, statusVars, objectVars,
                 scanVars, albums, relatedArtistsCache, lookup, ipcVars, callers, ui>>

\* the caller has the result, or the error
CreationEnds ==
  /\ creation.pc \in {"done", "failed"}
  /\ creation' = NoCreation
  /\ UNCHANGED <<albumTrackCache, authVars, gateVars, retryVars, statusVars, objectVars,
                 scanVars, albums, relatedArtistsCache, lookup, ipcVars, callers, ui>>

\* the releases and the tracks playlists are made of: none, one album, the
\* album of a hundred tracks, an album given twice, an album the catalog does
\* not know, more albums than a batch; no track, one, a chunk, a chunk and
\* one, two chunks and one
ManyAlbums == 21
ReleaseLists ==
  {<<>>, <<9>>, <<FullAlbum>>, <<FullAlbum, 9, FullAlbum>>, <<0, LongAlbum, LongAlbum>>,
   Ids(ManyAlbums) \o <<1, FullAlbum>>}
TrackLists == {Ids(n) : n \in {0, 1, 100, 101, 201}}

NextCreation ==
  \/ \E releases \in ReleaseLists : CreatePlaylistFromReleases(releases)
  \/ \E trackUris \in TrackLists : CreatePlaylistFromTracks(trackUris)
  \/ UserArrives
  \/ PlaylistArrives
  \/ AlbumsArrive
  \/ NextTracksArrive
  \/ ChunkAdded
  \/ CreationFails
  \/ CreationEnds

SpecCreation == InitGate /\ [][NextCreation]_vars

\* the requests of a kind, in the order they were made
RequestsOf(kind) == SelectSeq(creation.requests, LAMBDA r : r.kind = kind)

\* the IDs of a list at their first occurrence, in order
FirstOccurrences(ids) ==
  LET firsts == {k \in DOMAIN ids : \A j \in 1..(k - 1) : ids[j] # ids[k]}
  IN [n \in 1..Cardinality(firsts) |->
        ids[CHOOSE k \in firsts : Cardinality({j \in firsts : j <= k}) = n]]

\* how often an album ID was in a request for albums
LookedUp(albumId) ==
  LET asked == RequestsOf("albums")
  IN Cardinality({<<n, k>> \in (DOMAIN asked) \X (1..ALBUMS_BATCH) :
                    k <= Len(asked[n].ids) /\ asked[n].ids[k] = albumId})

\* C34: when the creation of a playlist returns, T tracks collected, the
\* add-tracks requests made are ceil(T/100), the n-th with the n-th hundred
\* of the tracks, each made after the playlist was created, and tracksAdded
\* is T; made from releases, the tracks are those of the albums the catalog
\* knows, each album once, and each album ID given was in one request for
\* albums, once
C34_ChunksOfAHundred ==
  creation.pc = "done" =>
    LET T == Len(creation.trackIds)
        adds == RequestsOf("add")
    IN /\ Len(adds) = (T + 99) \div 100
       /\ \A n \in DOMAIN adds :
            /\ adds[n].ids = SubSeq(creation.trackIds, 100 * (n - 1) + 1,
                                    IF 100 * n < T THEN 100 * n ELSE T)
            /\ Len(adds[n].ids) \in 1..100
            /\ adds[n].created
       /\ creation.tracksAdded = T
       /\ creation.from = "releases" =>
            /\ \A albumId \in Range(creation.releases) : LookedUp(albumId) = 1
            /\ Range(creation.trackIds) =
                 UNION {Range(AlbumTracks(albumId)) :
                          albumId \in Range(creation.releases) \ {0}}
            /\ T = Len(Values([n \in DOMAIN FirstOccurrences(creation.releases) |->
                                [key |-> FirstOccurrences(creation.releases)[n],
                                 value |-> IF FirstOccurrences(creation.releases)[n] = 0
                                           THEN <<>>
                                           ELSE AlbumTracks(FirstOccurrences(creation.releases)[n])]]))

\* a playlist has been made of the album of a hundred tracks given twice and
\* an album of one track: two requests, of a hundred tracks and of one
C34_Witness ==
  /\ creation.pc = "done" /\ creation.from = "releases"
  /\ creation.releases = <<FullAlbum, 9, FullAlbum>>
  /\ Len(RequestsOf("add")) = 2
  /\ creation.tracksAdded = FullAlbumTracks + 1



(* ------------------ the rate gate lets every caller through -------------- *)
\* the clock reaches the instant the first of the pending delays expires
DelayExpires ==
  /\ sleepers # EmptyBag
  /\ \A w \in BagToSet(sleepers) : w > now
  /\ now' = CHOOSE w \in BagToSet(sleepers) : \A v \in BagToSet(sleepers) : w <= v
  /\ UNCHANGED <<requestTimestamps, admitLog, sleepers, arrived>>
  /\ UNCHANGED <<authVars, retryVars, facadeVars>>

NextGateLive ==
  \/ Arrive
  \/ \E w \in BagToSet(sleepers) : WakeUp(w)
  \/ \E t \in TimePoints : Tick(t)
  \/ DelayExpires

\* time goes on, and the event loop runs the continuation of a delay that
\* has expired
SpecGateLive ==
  /\ InitGate /\ [][NextGateLive]_vars
  /\ WF_vars(DelayExpires)
  /\ WF_vars(\E w \in BagToSet(sleepers) : WakeUp(w))

\* the delays computed in this step: each ends after the instant it begins
WaitsArePositive ==
  \A w \in BagToSet(sleepers') :
    CopiesIn(w, sleepers') > CopiesIn(w, sleepers) => w > now'

\* C35: of finitely many callers of throttleRequests each is admitted in the
\* end: every wait that is computed is positive and ends, and from some
\* moment on no caller is waiting
C35_EveryCallerAdmitted ==
  /\ [][WaitsArePositive]_vars
  /\ <>[](sleepers = EmptyBag /\ Len(admitLog) = arrived)

\* all callers have arrived and been admitted, the last of them after a wait
\* that began when the clock was last read at a caller's arrival
C35_Witness ==
  /\ arrived = NumGateCallers /\ Len(admitLog) = arrived
  /\ sleepers = EmptyBag
  /\ \A t \in TimePoints : now > t



(* ------------------ a follow while the listing is fetched ---------------- *)
\* the account follows the artists up to StaleFollowed but one, more than a
\* page of them; the one is followed while the listing is fetched
StaleFollowed == 52
LateFollow == 5
StaleLimits == {0, StaleFollowed - 1}

\* the calls that fetch the releases fail here, what they fetch plays no part
NextStale ==
  \/ \E maxArtists \in StaleLimits : ScanStart(7, maxArtists)
  \/ FollowedPageArrives
  \/ FollowedPageFails
  \/ \E k \in 1..SCAN_BATCH_SIZE : FetchPageFails(k)
  \/ ScanEnds
  \/ FollowStart(<<LateFollow>>)
  \/ \E ok \in BOOLEAN : FollowChunkSettles(ok)

InitStale ==
  /\ now = ListingStart /\ requestTimestamps = <<>> /\ admitLog = <<>>
  /\ sleepers = EmptyBag /\ arrived = 0
  /\ tokens = [access_token |-> InitialToken, refresh_token |-> TRUE]
  /\ tokenRefreshPromise = Null
  /\ defaultAuthorization = InitialToken
  /\ stored = tokens
  /\ refreshes = <<>>
  /\ req = [p \in Procs |-> NewRequest]
  /\ apiSends = 0
  /\ anyResponse = FALSE
  /\ currentDelayMs = Ms(DEFAULT_DELAY_MS) /\ call = NoCall /\ history = <<>>
  /\ random = 0
  /\ serverFollowed = (1..StaleFollowed) \ {LateFollow}
  /\ followStatusCache = <<>>
  /\ followedArtistsCache = NoEntry
  /\ followedArtistsCacheByLimit = <<>>
  /\ bulk = NoBulk
  /\ artistDetailsCache = <<>>
  /\ playlistAnalysisCache = <<>>
  /\ analyses = [a \in Analyses |-> NoAnalysis]
  /\ analysisLog = <<>>
  /\ InitOthers

SpecStale == InitStale /\ [][NextStale]_vars

\* the listings in the caches that a lookup would use now
ValidListing(entry) ==
  /\ entry # NoEntry
  /\ isCacheEntryValid(now, entry.timestamp, CACHE_TTL_FOLLOWED_ARTISTS_MS)

\* C36: once a followArtistsBulk that followed an artist has returned, the
\* listings in the caches that are valid are as the server lists the followed
\* artists since the follow, none is of before it
C36_NoListingOfBeforeTheFollow ==
  (bulk.pc = "returned" /\ bulk.succeededIds # <<>>) =>
    /\ ValidListing(followedArtistsCache) =>
         followedArtistsCache.artists = FollowedListing
    /\ \A limit \in DOMAIN followedArtistsCacheByLimit :
         ValidListing(followedArtistsCacheByLimit[limit]) =>
           followedArtistsCacheByLimit[limit].artists = Slice(FollowedListing, 0, limit)



(* ------------------ the credential after a refresh that failed ----------- *)
\* the refresh that completes in this step without tokens for its callers
FailsNow(id) ==
  /\ id \in DOMAIN refreshes /\ refreshes[id].st = "pending"
  /\ refreshes'[id].st = "failed"

\* C37: a refresh that ends in null for its callers leaves the credential of
\* the service and the default Authorization header as they were when it
\* began, also when the issuer has answered with tokens and storing them threw
C37_FailedRefreshLeavesCredential ==
  [][\A id \in DOMAIN refreshes :
       FailsNow(id) => /\ tokens' = tokens
                       /\ defaultAuthorization' = defaultAuthorization]_vars



(* ------------------ the store after a logout ----------------------------- *)
\* AUTH_LOGOUT has been handled
LoggedOut == \E j \in DOMAIN ipc : ipc[j].channel = "AUTH_LOGOUT"

\* authenticate() resolves in this step
AuthenticatesNow ==
  \E i \in DOMAIN ipc :
    /\ ipc[i].channel = "AUTH_START" /\ ipc[i].st = "running"
    /\ ipc'[i].st = "replied" /\ ipc'[i].success

\* C38: the store emptied by AUTH_LOGOUT holds no tokens until authenticate()
\* succeeds again, whatever the operations still running at the logout do
C38_StoreEmptyUntilAuthenticate ==
  [][(LoggedOut /\ stored = NoTokens /\ stored' # NoTokens) => AuthenticatesNow]_vars



(* ------------------ the refreshes of one call ---------------------------- *)
\* C39: one call of apiCallWithRetry, whatever its attempts are answered,
\* asks for at most one refresh of the token
C39_OneRefreshPerCall ==
  call.pc # "idle" => Len(refreshes) <= 1



(* ------------------ Cancel in the release finder ------------------------- *)
\* the calls of handleScan of a run
MaxScans == 3

uiFrame == <<authVars, gateVars, retryVars, statusVars, objectVars, scanVars, albums,
             relatedArtistsCache, lookup, ipcVars, callers, playlistVars>>

\* a call of handleScan: where it stands, the facade operations it has
\* invoked, and whether Cancel was pressed while it ran
Handler(pc, invoked) == [pc |-> pc, invoked |-> invoked, cancelled |-> FALSE]

\* handleScan, lines 48-60: the button is enabled while nothing is loading
HandleScan ==
  /\ ~(ui.isScanning \/ ui.isCreatingPlaylist)
  /\ Len(ui.handlers) < MaxScans
  /\ ui' = [ui EXCEPT !.isScanning = TRUE, !.canCancel = TRUE, !.progress = FALSE,
                      !.handlers = Append(@, Handler("scan", <<"SCAN_RELEASES">>))]
  /\ UNCHANGED uiFrame

\* onScanProgress, onCreatePlaylistProgress: an operation in the main process
\* reports its progress
ProgressArrives ==
  /\ \E h \in DOMAIN ui.handlers : ui.handlers[h].pc \in {"scan", "create"}
  /\ ui' = [ui EXCEPT !.progress = TRUE]
  /\ UNCHANGED uiFrame

\* handleScan after the await of scanReleases, lines 62-85: with releases the
\* playlist is created (createPlaylistFromReleases up to its await), without
\* releases or with an error the handler ends
AfterScan(u, h, success, found) ==
  IF success /\ found
  THEN [u EXCEPT !.isCreatingPlaylist = TRUE, !.canCancel = TRUE, !.progress = FALSE,
                 !.handlers[h].pc = "create",
                 !.handlers[h].invoked = Append(@, "CREATE_PLAYLIST")]
  ELSE [u EXCEPT !.isScanning = FALSE, !.canCancel = FALSE,
                 !.handlers[h].pc = "done"]

\* the reply of SCAN_RELEASES arrives at the handler that awaits it
ScanReplies(h, success, found) ==
  /\ h \in DOMAIN ui.handlers /\ ui.handlers[h].pc = "scan"
  /\ ui' = AfterScan(ui, h, success, found)
  /\ UNCHANGED uiFrame

\* the reply of CREATE_PLAYLIST arrives, lines 102-120 and 86-88
CreateReplies(h) ==
  /\ h \in DOMAIN ui.handlers /\ ui.handlers[h].pc = "create"
  /\ ui' = [ui EXCEPT !.isCreatingPlaylist = FALSE, !.isScanning = FALSE,
                      !.canCancel = FALSE, !.handlers[h].pc = "done"]
  /\ UNCHANGED uiFrame

\* handleCancel, lines 123-130: the button is shown with the progress while
\* canCancel is set
HandleCancel ==
  /\ ui.progress /\ ui.canCancel
  /\ ui' = [ui EXCEPT !.isScanning = FALSE, !.isCreatingPlaylist = FALSE,
                      !.canCancel = FALSE, !.progress = FALSE,
                      !.handlers = [h \in DOMAIN ui.handlers |->
                                      IF ui.handlers[h].pc = "done" THEN ui.handlers[h]
                                      ELSE [ui.handlers[h] EXCEPT !.cancelled = TRUE]]]
  /\ UNCHANGED uiFrame

NextUi ==
  \/ HandleScan
  \/ ProgressArrives
  \/ \E h \in 1..MaxScans, success, found \in BOOLEAN : ScanReplies(h, success, found)
  \/ \E h \in 1..MaxScans : CreateReplies(h)
  \/ HandleCancel

SpecUi == InitGate /\ [][NextUi]_vars

\* C40: the call of handleScan during which Cancel was pressed invokes no
\* further operation of the facade: its scan may reply, no playlist is created
C40_NothingInvokedAfterCancel ==
  [][\A h \in DOMAIN ui.handlers :
       ui.handlers[h].cancelled => ui'.handlers[h].invoked = ui.handlers[h].invoked]_vars


====
